---- MODULE Spec2Model ----
(***************************************************************************)
(* DocFinder: the SQLite vector store (index/storage.py) and the indexing  *)
(* pipeline (index/indexer.py) as a state machine.                         *)
(*                                                                         *)
(* db   is the committed content of the database file,                     *)
(* conn is the content as seen through the store's connection: db plus the *)
(*      mutations of the open transaction, if any.                         *)
(* chunk_chars, overlap are the fields of the Indexer, stats the           *)
(*      IndexStats of the running call of Indexer.index,                   *)
(* gen  is a call of the chunker of utils/text.py: its arguments and what  *)
(*      it yielded.                                                        *)
(***************************************************************************)
EXTENDS Integers, Sequences, FiniteSets, TLC

VARIABLES disk, db, conn, pc, queue, job, last,
          chunk_chars, overlap, stats, gen, jobs

vars == <<disk, db, conn, pc, queue, job, last,
          chunk_chars, overlap, stats, gen, jobs>>

(***************************************************************************)
(* Bounds of the model and constants of the program.                       *)
(***************************************************************************)
\* distinct file contents a path may hold
NumContents == 3
\* distinct hashes callers pass to upsert_document: those of contents
\* 1..NumHashes
NumHashes == 2
\* chunk counts callers pass to upsert_document: 0..MaxUpsertChunks
MaxUpsertChunks == 1
\* distinct versions (title, chunk texts) callers pass to upsert_document
NumVersions == 2
\* the dimension the store was opened with (SQLiteVectorStore.__init__)
dimension == 2
\* document rowids the model lets the store hand out: 1..MaxDocId
MaxDocId == 3
\* paths one call of Indexer.index is given: 1..MaxIndexPaths
MaxIndexPaths == 2
\* Indexer._index_single: batch_size = 32
batch_size == 32
\* the chunk_chars and overlap the model's Indexer is constructed with
ModelChunkChars == 2
ModelOverlap == 1
\* the chunker on its own: text streams of at most MaxParts fragments of at
\* most MaxPartLen characters, max_chars in 1..MaxChunkChars
MaxParts == 3
MaxPartLen == 3
MaxChunkChars == 4
\* search on its own: documents of at most MaxSearchChunks chunks, top_k in
\* 0..MaxTopK
MaxSearchChunks == 2
MaxTopK == 4
\* the search path: query texts of at most MaxQueryLen characters
MaxQueryLen == 2
\* web/app.py search_documents: top_k = max(1, min(payload.top_k, 50))
MaxWebTopK == 50
\* the end-to-end example: a page of 1000 characters, Indexer(chunk_chars=300,
\* overlap=50); ExampleFile is the content of that file
ExampleChars == 1000
ExampleChunkChars == 300
ExampleOverlap == 50
ExampleFile == ExampleChars
\* the content of a file that is no PDF: fitz cannot open it
CorruptFile == ExampleFile + 1

Paths == {"a.pdf", "b.pdf"}
Contents == 1..NumContents
NoFile == 0
None == [id |-> -1]

(***************************************************************************)
(* External collaborators, as functions of the file's bytes.               *)
(***************************************************************************)
\* utils/files.py compute_sha256: a digest of the bytes, collision free on
\* the bounded set of contents; the store keeps it as a hex string.
compute_sha256(bytes) == <<"sha256", bytes>>

\* ingestion/pdf_loader.py get_pdf_metadata: the title is part of the file.
TitleOf(bytes) == <<"title", bytes>>

\* A character of the text of a file: the text's i-th, told apart from every
\* other character of every file.
Char(bytes, i) == <<"text", bytes, i>>

\* Number of characters the pages of a file yield: content 1 has no
\* extractable text, content 2 a single character, content 3 as many
\* characters as make more than one batch of chunks for the model's Indexer,
\* the contents after it a few characters.
TextLenOf(bytes) ==
    IF bytes = 1 THEN 0
    ELSE IF bytes = 2 THEN 1
    ELSE IF bytes = 3 THEN batch_size + ModelChunkChars - 1
    ELSE IF bytes = ExampleFile THEN ExampleChars
    ELSE bytes - 2

\* ingestion/pdf_loader.py iter_text_parts: the normalized text of each page
\* that has text, in page order.  A file of the model has its text on two
\* pages, or on one when it is a single character or the example's file.
iter_text_parts(bytes) ==
    LET n == TextLenOf(bytes)
        half == n \div 2
    IN IF n = 0 THEN <<>>
       ELSE IF n = 1 \/ bytes = ExampleFile
       THEN <<[i \in 1..n |-> Char(bytes, i)]>>
       ELSE <<[i \in 1..half |-> Char(bytes, i)],
              [i \in 1..(n - half) |-> Char(bytes, half + i)]>>

Maximum(a, b) == IF a >= b THEN a ELSE b

\* The inner loop cutting the buffer at max_chars: the overlap is dropped.
RECURSIVE chunk_while_no_overlap(_, _, _, _)
chunk_while_no_overlap(buffer, out, max_chars, step) ==
    IF Len(buffer) >= max_chars
    THEN chunk_while_no_overlap(SubSeq(buffer, max_chars + 1, Len(buffer)),
                                Append(out, SubSeq(buffer, 1, max_chars)),
                                max_chars, step)
    ELSE [buffer |-> buffer, out |-> out]

\* The inner loop with > for >=: a buffer of exactly max_chars waits.
RECURSIVE chunk_while_strict(_, _, _, _)
chunk_while_strict(buffer, out, max_chars, step) ==
    IF Len(buffer) > max_chars
    THEN chunk_while_strict(SubSeq(buffer, step + 1, Len(buffer)),
                            Append(out, SubSeq(buffer, 1, max_chars)),
                            max_chars, step)
    ELSE [buffer |-> buffer, out |-> out]

\* utils/text.py chunk_text_stream, the inner loop:
\*   while len(buffer) >= max_chars:
\*       yield buffer[:max_chars]; buffer = buffer[step:]
\* The inner loop as an `if`: at most one chunk is cut after a fragment.
chunk_while_once(buffer, out, max_chars, step) ==
    IF Len(buffer) >= max_chars
    THEN [buffer |-> SubSeq(buffer, step + 1, Len(buffer)),
          out |-> Append(out, SubSeq(buffer, 1, max_chars))]
    ELSE [buffer |-> buffer, out |-> out]

RECURSIVE chunk_while(_, _, _, _)
chunk_while(buffer, out, max_chars, step) ==
    IF Len(buffer) >= max_chars
    THEN chunk_while(SubSeq(buffer, step + 1, Len(buffer)),
                     Append(out, SubSeq(buffer, 1, max_chars)),
                     max_chars, step)
    ELSE [buffer |-> buffer, out |-> out]

\* The outer loop without the final `if buffer: yield buffer`.
RECURSIVE chunk_for_no_flush(_, _, _, _, _)
chunk_for_no_flush(text_stream, buffer, out, max_chars, step) ==
    IF text_stream = <<>>
    THEN out
    ELSE LET r == chunk_while(buffer \o Head(text_stream), out, max_chars, step)
         IN chunk_for_no_flush(Tail(text_stream), r.buffer, r.out, max_chars, step)

\* utils/text.py chunk_text_stream, the outer loop and what follows it:
\*   for part in text_stream: buffer += part; (the inner loop)
\*   if buffer: yield buffer
RECURSIVE chunk_for(_, _, _, _, _)
chunk_for(text_stream, buffer, out, max_chars, step) ==
    IF text_stream = <<>>
    THEN IF buffer /= <<>> THEN Append(out, buffer) ELSE out
    ELSE LET r == chunk_while(buffer \o Head(text_stream), out, max_chars, step)
         IN chunk_for(Tail(text_stream), r.buffer, r.out, max_chars, step)

\* The buffer of chunk_text_stream along the outer loop, one entry for each
\* fragment: the length of the buffer when the fragment is asked for, the
\* length of the fragment, the length of the buffer after `buffer += part`
\* and after the inner loop.
RECURSIVE chunk_buffers(_, _, _, _)
chunk_buffers(text_stream, buffer, max_chars, step) ==
    IF text_stream = <<>>
    THEN <<>>
    ELSE LET part == Head(text_stream)
             r == chunk_while(buffer \o part, <<>>, max_chars, step)
         IN <<[before |-> Len(buffer), part |-> Len(part),
               after |-> Len(buffer \o part), left |-> Len(r.buffer)]>>
            \o chunk_buffers(Tail(text_stream), r.buffer, max_chars, step)

\* utils/text.py chunk_text_stream: the sequence of chunks it yields
chunk_text_stream(text_stream, max_chars, ovl) ==
    chunk_for(text_stream, <<>>, <<>>, max_chars, Maximum(max_chars - ovl, 1))

\* text[a:b] of Python, for 0 <= a
Slice(text, a, b) == SubSeq(text, a + 1, IF b < Len(text) THEN b ELSE Len(text))

\* utils/text.py chunk_text:
\*   if not text: return iter(())
\*   for start in range(0, len(text), step): yield text[start : start + max_chars]
chunk_text(text, max_chars, ovl) ==
    LET step == Maximum(max_chars - ovl, 1)
        count == (Len(text) + step - 1) \div step
    IN IF text = <<>> THEN <<>>
       ELSE [i \in 1..count |->
                Slice(text, (i - 1) * step, (i - 1) * step + max_chars)]

\* The Indexers of the model and the files each is given.
Indexers ==
    ({<<ModelChunkChars, ModelOverlap>>} \X Contents)
    \cup ({<<ExampleChunkChars, ExampleOverlap>>} \X {ExampleFile})

\* What chunk_text_stream yields for a file under an Indexer, as a table.
FileChunks ==
    [x \in Indexers |-> chunk_text_stream(iter_text_parts(x[2]), x[1][1], x[1][2])]

\* The metadata build_chunks gives the chunks of a file, as a table.
FileMetadata ==
    [bytes \in Contents \cup {ExampleFile} |->
        [page_span |-> Len(iter_text_parts(bytes)), title |-> TitleOf(bytes)]]

\* ingestion/pdf_loader.py build_chunks: the metadata of every chunk of a
\* file, {"page_span": meta["page_count"], "title": meta["title"]}
ChunkMetadata(bytes) == FileMetadata[bytes]

\* fitz.open(path) raises: there is no file, or the file is no PDF.
fitz_open_raises(bytes) == bytes = NoFile \/ bytes = CorruptFile

\* build_chunks numbering its chunks from 1: enumerate(..., 1).
build_chunks_from_one(bytes) ==
    IF fitz_open_raises(bytes) THEN <<>>
    ELSE
      LET chunks == FileChunks[<<<<chunk_chars, overlap>>, bytes>>]
      IN [i \in 1..Len(chunks) |->
            [index |-> i, text |-> chunks[i], metadata |-> ChunkMetadata(bytes)]]

\* ingestion/pdf_loader.py build_chunks: ChunkRecord(index=idx, text=chunk)
\* for idx, chunk in enumerate(chunk_text_stream(...)), with the max_chars
\* and overlap of the Indexer.  When get_pdf_metadata raises, which it does
\* when fitz.open does, the except branch returns: no chunk is yielded.
build_chunks(bytes) ==
    IF fitz_open_raises(bytes) THEN <<>>
    ELSE
      LET chunks == FileChunks[<<<<chunk_chars, overlap>>, bytes>>]
      IN [i \in 1..Len(chunks) |->
            [index |-> i - 1, text |-> chunks[i],
             metadata |-> ChunkMetadata(bytes)]]

\* Number of chunks build_chunks yields for a file.
ChunkCountOf(bytes) == Len(build_chunks(bytes))

(***************************************************************************)
(* index/storage.py                                                        *)
(***************************************************************************)
EmptyStore == [docs |-> {}, chunks |-> {}]

Max(S) == CHOOSE x \in S : \A y \in S : y <= x

\* INTEGER PRIMARY KEY without AUTOINCREMENT: the next rowid is one more than
\* the largest rowid in the table.
NextRowId(rows) == IF rows = {} THEN 1 ELSE Max({r.id : r \in rows}) + 1

\* np.asarray(vector, dtype="float32").tobytes(): 4 bytes per value
Float32Bytes(width) == 4 * width

\* np.asarray(vector, dtype="float32").tobytes(): the bytes of the values,
\* which the model takes among the numbers float32 holds exactly.
tobytes(vector) ==
    [nbytes |-> Float32Bytes(Len(vector)), float32 |-> vector]

\* json.dumps(chunk.metadata, ensure_ascii=True): the JSON text
json_dumps(metadata) == <<"json", metadata>>

\* transaction() with the except branch forgotten: the exception passes, the
\* scope's mutations stay pending on the connection.
transaction_no_rollback(committed, working, raised) ==
    IF raised
    THEN [db |-> committed, conn |-> working, raised |-> TRUE]
    ELSE [db |-> working, conn |-> working, raised |-> FALSE]

\* transaction() committing in a finally clause: also after an exception.
transaction_always_commit(committed, working, raised) ==
    [db |-> working, conn |-> working, raised |-> raised]

\* contextmanager transaction(): commit on normal exit, rollback and re-raise
\* on an exception.  committed is the database file, working the connection's
\* view with the scope's mutations.
transaction(committed, working, raised) ==
    IF raised
    THEN [db |-> committed, conn |-> committed, raised |-> TRUE]
    ELSE [db |-> working, conn |-> working, raised |-> FALSE]

\* SELECT id, sha256 FROM documents WHERE path = ? ... fetchone()
SelectByPath(st, path) ==
    LET found == {r \in st.docs : r.path = path}
    IN IF found = {} THEN None ELSE CHOOSE r \in found : TRUE

\* init_document comparing nothing: a stored path is always replaced.
init_document_no_skip(st, document) ==
    LET existing == SelectByPath(st, document.path)
        chunks1 == IF existing /= None
                   THEN {c \in st.chunks : c.document_id /= existing.id}
                   ELSE st.chunks
        docs1 == IF existing /= None
                 THEN {r \in st.docs : r.id /= existing.id}
                 ELSE st.docs
        doc_id == NextRowId(docs1)
        row == [id |-> doc_id, path |-> document.path,
                title |-> document.title, sha256 |-> document.sha256]
    IN [st |-> [docs |-> docs1 \cup {row}, chunks |-> chunks1],
        doc_id |-> doc_id,
        status |-> IF existing /= None THEN "updated" ELSE "inserted",
        raised |-> FALSE]

\* init_document leaving the old chunks to ON DELETE CASCADE, which SQLite
\* does not apply unless PRAGMA foreign_keys is set.
init_document_no_chunk_delete(st, document) ==
    LET existing == SelectByPath(st, document.path)
    IN IF existing /= None /\ existing.sha256 = document.sha256
       THEN [st |-> st, doc_id |-> -1, status |-> "skipped", raised |-> FALSE]
       ELSE
         LET docs1 == IF existing /= None
                      THEN {r \in st.docs : r.id /= existing.id}
                      ELSE st.docs
             doc_id == NextRowId(docs1)
             row == [id |-> doc_id, path |-> document.path,
                     title |-> document.title, sha256 |-> document.sha256]
         IN [st |-> [docs |-> docs1 \cup {row}, chunks |-> st.chunks],
             doc_id |-> doc_id,
             status |-> IF existing /= None THEN "updated" ELSE "inserted",
             raised |-> FALSE]

\* init_document as a plain INSERT into a documents table whose path is not
\* UNIQUE: a changed document gets a second row.
init_document_append(st, document) ==
    LET existing == SelectByPath(st, document.path)
    IN IF existing /= None /\ existing.sha256 = document.sha256
       THEN [st |-> st, doc_id |-> -1, status |-> "skipped", raised |-> FALSE]
       ELSE
         LET doc_id == NextRowId(st.docs)
             row == [id |-> doc_id, path |-> document.path,
                     title |-> document.title, sha256 |-> document.sha256]
         IN [st |-> [docs |-> st.docs \cup {row}, chunks |-> st.chunks],
             doc_id |-> doc_id,
             status |-> IF existing /= None THEN "updated" ELSE "inserted",
             raised |-> FALSE]

\* init_document: (doc_id, status), the store after it, and whether the
\* INSERT raised (documents.path is UNIQUE).
init_document(st, document) ==
    LET existing == SelectByPath(st, document.path)
    IN IF existing /= None /\ existing.sha256 = document.sha256
       THEN [st |-> st, doc_id |-> -1, status |-> "skipped", raised |-> FALSE]
       ELSE
         LET chunks1 == IF existing /= None
                        THEN {c \in st.chunks : c.document_id /= existing.id}
                        ELSE st.chunks
             docs1 == IF existing /= None
                      THEN {r \in st.docs : r.id /= existing.id}
                      ELSE st.docs
             doc_id == NextRowId(docs1)
             row == [id |-> doc_id,
                     path |-> document.path,
                     title |-> document.title,
                     sha256 |-> document.sha256]
         IN IF \E r \in docs1 : r.path = document.path
            THEN [st |-> [docs |-> docs1, chunks |-> chunks1],
                  doc_id |-> -1, status |-> "error", raised |-> TRUE]
            ELSE [st |-> [docs |-> docs1 \cup {row}, chunks |-> chunks1],
                  doc_id |-> doc_id,
                  status |-> IF existing /= None THEN "updated" ELSE "inserted",
                  raised |-> FALSE]

\* insert_chunks without its length check: zip() stops at the shorter one.
insert_chunks_no_check(st, doc_id, chunks, embeddings) ==
    LET n == IF embeddings.rows < Len(chunks) THEN embeddings.rows ELSE Len(chunks)
        base == Cardinality({c \in st.chunks : c.document_id = doc_id})
        new == {[document_id |-> doc_id,
                 rowno |-> base + i,
                 chunk_index |-> chunks[i].index,
                 text |-> chunks[i].text,
                 metadata |-> json_dumps(chunks[i].metadata),
                 embedding |-> tobytes(embeddings.data[i])]
                : i \in 1..n}
    IN [st |-> [docs |-> st.docs, chunks |-> st.chunks \cup new],
        raised |-> FALSE]

\* insert_chunks numbering the rows itself instead of storing chunk.index.
insert_chunks_own_index(st, doc_id, chunks, embeddings) ==
    IF embeddings.rows /= Len(chunks)
    THEN [st |-> st, raised |-> TRUE]
    ELSE
      LET base == Cardinality({c \in st.chunks : c.document_id = doc_id})
          new == {[document_id |-> doc_id,
                   rowno |-> base + i,
                   chunk_index |-> base + i,
                   text |-> chunks[i].text,
                   metadata |-> json_dumps(chunks[i].metadata),
                   embedding |-> tobytes(embeddings.data[i])]
                  : i \in 1..Len(chunks)}
      IN [st |-> [docs |-> st.docs, chunks |-> st.chunks \cup new],
          raised |-> FALSE]

\* insert_chunks: chunks is a sequence of ChunkRecord, embeddings an array of
\* shape (rows, width) whose i-th row is data[i].  chunks.id, the rowid, is read nowhere in the program:
\* a row is told apart by rowno, its position among the rows of its document.
insert_chunks(st, doc_id, chunks, embeddings) ==
    IF embeddings.rows /= Len(chunks)
    THEN [st |-> st, raised |-> TRUE]
    ELSE
      LET base == Cardinality({c \in st.chunks : c.document_id = doc_id})
          new == {[document_id |-> doc_id,
                   rowno |-> base + i,
                   chunk_index |-> chunks[i].index,
                   text |-> chunks[i].text,
                   metadata |-> json_dumps(chunks[i].metadata),
                   embedding |-> tobytes(embeddings.data[i])]
                  : i \in 1..Len(chunks)}
      IN [st |-> [docs |-> st.docs, chunks |-> st.chunks \cup new],
          raised |-> FALSE]

\* The result of upsert_document on a store whose file holds `committed` and
\* whose connection sees `working`.
upsert_result(committed, working, document, chunks, embeddings) ==
    LET r1 == init_document(working, document)
        r2 == IF r1.raised \/ r1.status = "skipped"
              THEN [st |-> r1.st, raised |-> r1.raised]
              ELSE insert_chunks(r1.st, r1.doc_id, chunks, embeddings)
        tx == transaction(committed, r2.st, r2.raised)
    IN [db |-> tx.db, conn |-> tx.conn, doc_id |-> r1.doc_id,
        status |-> IF tx.raised
                   THEN (IF r1.raised THEN "IntegrityError" ELSE "ValueError")
                   ELSE r1.status]

\* An array of shape (rows, width) whose rows are the vectors `data`.
Array(rows, width, data) == [rows |-> rows, width |-> width, data |-> data]

\* What callers of upsert_document pass in: version v of a caller's data is
\* a title, chunk texts with their metadata and an embedding matrix of width
\* dimension + v - 1, so version 1 has the store's dimension and the others
\* do not.
UpsertCalls ==
    {[document |-> [path |-> p, title |-> <<"caller", v>>,
                    sha256 |-> compute_sha256(b)],
      chunks |-> [i \in 1..n |->
                    [index |-> i - 1, text |-> <<<<"caller", v, i - 1>>>>,
                     metadata |-> [title |-> <<"caller", v>>]]],
      embeddings |-> Array(m, dimension + v - 1,
                           [i \in 1..m |-> [k \in 1..(dimension + v - 1) |-> v]])]
     : p \in Paths, b \in 1..NumHashes, v \in 1..NumVersions,
       n \in 0..MaxUpsertChunks, m \in 0..MaxUpsertChunks}

\* The calls made beside the indexing pipeline: a document with the hash of
\* the one-chunk file, so that it may or may not be what the pipeline finds
\* on disk, with chunks and embeddings of the store's dimension, as many
\* embedding rows as chunks or not.
PipelineCalls ==
    {c \in UpsertCalls : /\ c.document.sha256 = compute_sha256(2)
                         /\ Len(c.chunks) = MaxUpsertChunks
                         /\ c.embeddings.width = dimension}

Idle == pc = "idle"

\* What the last call returned or raised: its status, and for
\* remove_missing_files the number it returned, for a failed document the
\* number of its chunks that had been inserted when it failed.
Result(op, path, status, count) ==
    [op |-> op, path |-> path, status |-> status, count |-> count]

upsert_document(document, chunks, embeddings) ==
    /\ Idle
    /\ LET r == upsert_result(db, conn, document, chunks, embeddings)
       IN /\ r.doc_id <= MaxDocId
          /\ db' = r.db
          /\ conn' = r.conn
          /\ last' = Result("upsert_document", document.path, r.status, 0)
    /\ UNCHANGED <<disk, pc, queue, job>>
    /\ UNCHANGED <<jobs, chunk_chars, overlap, stats, gen>>

\* remove_missing_files with the test inverted: the rows whose file exists.
MissingRows_inverted(st, fs) == {r \in st.docs : fs[r.path] /= NoFile}

\* remove_missing_files: the rows whose Path(row["path"]).exists() is false
MissingRows(st, fs) == {r \in st.docs : fs[r.path] = NoFile}

\* remove_missing_files deleting the document rows only.
DeleteRows_documents_only(st, missing) ==
    LET ids == {r.id : r \in missing}
    IN [docs |-> {r \in st.docs : r.id \notin ids}, chunks |-> st.chunks]

\* for row in missing: DELETE FROM chunks WHERE document_id = row.id;
\*                      DELETE FROM documents WHERE id = row.id
DeleteRows(st, missing) ==
    LET ids == {r.id : r \in missing}
    IN [docs |-> {r \in st.docs : r.id \notin ids},
        chunks |-> {c \in st.chunks : c.document_id \notin ids}]

remove_missing_files ==
    /\ Idle
    /\ LET missing == MissingRows(conn, disk)
           working == DeleteRows(conn, missing)
           tx == transaction(db, working, FALSE)
       IN /\ db' = tx.db
          /\ conn' = tx.conn
          /\ last' = Result("remove_missing_files", "", "returned",
                            Cardinality(missing))
    /\ UNCHANGED <<disk, pc, queue, job>>
    /\ UNCHANGED <<jobs, chunk_chars, overlap, stats, gen>>

(***************************************************************************)
(* SQLiteVectorStore.__init__ on a database file that exists               *)
(***************************************************************************)
\* The columns CREATE TABLE gives the chunks table.
ChunkColumns ==
    {"id", "document_id", "chunk_index", "text", "metadata", "embedding",
     "created_at"}

\* The database file of a store: its tables with their rows, the columns of
\* chunks, its triggers and indexes.  _ensure_schema has run on it.
DatabaseFile(st) ==
    [tables |-> [documents |-> st.docs, chunks |-> st.chunks],
     chunk_columns |-> ChunkColumns,
     triggers |-> {"documents_updated"},
     indexes |-> {"idx_chunks_document_id"}]

\* CREATE TABLE without IF NOT EXISTS behind a DROP: the table is made anew.
create_table_anew(file, name) ==
    [file EXCEPT !.tables =
        [n \in DOMAIN file.tables \cup {name} |->
            IF n = name THEN {} ELSE file.tables[n]]]

\* CREATE TABLE IF NOT EXISTS name: an existing table is left as it is.
create_table_if_not_exists(file, name) ==
    IF name \in DOMAIN file.tables THEN file
    ELSE [file EXCEPT !.tables =
            [n \in DOMAIN file.tables \cup {name} |->
                IF n = name THEN {} ELSE file.tables[n]]]

\* DROP TABLE IF EXISTS name
drop_table_if_exists(file, name) ==
    [file EXCEPT !.tables = [n \in DOMAIN file.tables \ {name} |-> file.tables[n]]]

\* _ensure_schema: the statements of its transaction, in order.
ensure_schema(file) ==
    LET f1 == create_table_if_not_exists(file, "documents")
        f2 == [f1 EXCEPT !.triggers = @ \cup {"documents_updated"}]
        f3 == create_table_if_not_exists(f2, "chunks")
        f4 == [f3 EXCEPT !.indexes = @ \cup {"idx_chunks_document_id"}]
        f5 == drop_table_if_exists(f4, "chunk_index")
        f6 == drop_table_if_exists(f5, "chunk_index_data")
        f7 == drop_table_if_exists(f6, "chunk_index_index")
    IN IF "embedding" \notin f7.chunk_columns
       THEN [f7 EXCEPT !.chunk_columns = @ \cup {"embedding"}]
       ELSE f7

\* SQLiteVectorStore(db_path, dimension=...) on the database file: a new
\* connection, whose _ensure_schema commits; the new instance reads the
\* file through it.
open_store ==
    /\ Idle
    /\ LET file == ensure_schema(DatabaseFile(db))
           st == [docs |-> file.tables.documents, chunks |-> file.tables.chunks]
       IN /\ db' = st
          /\ conn' = st
    /\ last' = Result("open_store", "", "opened", 0)
    /\ UNCHANGED <<disk, pc, queue, job>>
    /\ UNCHANGED <<jobs, chunk_chars, overlap, stats, gen>>

(***************************************************************************)
(* SQLiteVectorStore.search                                                *)
(***************************************************************************)
\* np.frombuffer(row["embedding"], dtype="float32"): the values of the blob
frombuffer(blob) == blob.float32

\* SELECT d.path, d.title, c.chunk_index, c.text, c.metadata, c.embedding
\* FROM chunks c JOIN documents d ON d.id = c.document_id: one row for each
\* chunk whose document_id is the id of a documents row.
JoinRows(st) ==
    {[path |-> d.path, title |-> d.title, chunk_index |-> c.chunk_index,
      text |-> c.text, metadata |-> c.metadata, embedding |-> c.embedding,
      document_id |-> c.document_id, rowno |-> c.rowno]
     : <<c, d>> \in {cd \in st.chunks \X st.docs :
                       cd[2].id = cd[1].document_id}}

\* fetchall(): the joined rows as a list.  SQL leaves the order open; the
\* model lists them by document and order of insertion, and the results do
\* not depend on that order, because the choice among equal scores below
\* ranges over every order.
RECURSIVE fetchall(_)
fetchall(rows) ==
    IF rows = {} THEN <<>>
    ELSE LET first == CHOOSE r \in rows : \A o \in rows :
                         \/ r.document_id < o.document_id
                         \/ /\ r.document_id = o.document_id
                            /\ r.rowno <= o.rowno
         IN <<first>> \o fetchall(rows \ {first})

\* The sequences that hold every element of S once.
RECURSIVE Perms(_)
Perms(S) ==
    IF S = {} THEN {<<>>}
    ELSE UNION {{<<x>> \o p : p \in Perms(S \ {x})} : x \in S}

\* The most rows the store holds when search is called.
MaxRows == Cardinality(Paths) * MaxSearchChunks

\* The orders in which n indices can come out of a numpy sort.
Orders == [n \in 0..MaxRows |-> Perms(1..n)]

\* a @ b for two vectors of one length
RECURSIVE Dot(_, _)
Dot(a, b) ==
    IF Len(a) = 0 THEN 0
    ELSE a[1] * b[1] + Dot(SubSeq(a, 2, Len(a)), SubSeq(b, 2, Len(b)))

\* Python's seq[-k:] for k >= 0: the last k elements, and since -0 is 0 the
\* whole sequence when k = 0.
LastSlice(seq, k) ==
    LET start == IF k = 0 THEN 0
                 ELSE IF k > Len(seq) THEN 0 ELSE Len(seq) - k
    IN SubSeq(seq, start + 1, Len(seq))

\* np.argpartition(scores, -top_k) for top_k < len(scores): a permutation of
\* the indices with the element of rank kth at position kth, nothing larger
\* before it and nothing smaller after it; a negative kth counts from the
\* end, and -0 is 0.  Which permutation is not specified.
argpartition(scores, top_k) ==
    LET n == Len(scores)
        kth == IF top_k = 0 THEN 0 ELSE n - top_k
    IN {p \in Orders[n] :
          \A i \in 1..n :
             /\ i < kth + 1 => scores[p[i]] <= scores[p[kth + 1]]
             /\ i > kth + 1 => scores[p[i]] >= scores[p[kth + 1]]}

\* np.argsort(values)[::-1]: positions of the values from the largest to
\* the smallest; the order among equal values is not specified.
argsort_reversed(values) ==
    {p \in Orders[Len(values)] :
        \A i, j \in 1..Len(values) : i < j => values[p[i]] >= values[p[j]]}

\* The top_indices search computes from the scores.
top_indices(scores, top_k) ==
    IF top_k < Len(scores)
    THEN UNION {LET top == LastSlice(part, top_k)
                    sub == [i \in 1..Len(top) |-> scores[top[i]]]
                IN {[i \in 1..Len(top) |-> top[order[i]]]
                    : order \in argsort_reversed(sub)}
                : part \in argpartition(scores, top_k)}
    ELSE argsort_reversed(scores)

\* What search(embedding, top_k=top_k) may do on the store st: return one of
\* the result lists, or raise ValueError where numpy finds that the blobs do
\* not all have the query's length.
search_results(st, query, top_k) ==
    LET joined == JoinRows(st)
    IN IF joined = {} THEN {[raised |-> FALSE, results |-> <<>>]}
       ELSE IF \E r \in joined : Len(frombuffer(r.embedding)) /= Len(query)
       THEN {[raised |-> TRUE, results |-> <<>>]}
       ELSE LET rows == fetchall(joined)
                scores == [i \in 1..Len(rows) |->
                             Dot(frombuffer(rows[i].embedding), query)]
            IN {[raised |-> FALSE,
                 results |->
                   [n \in 1..Len(idx) |->
                      [path |-> rows[idx[n]].path,
                       title |-> rows[idx[n]].title,
                       chunk_index |-> rows[idx[n]].chunk_index,
                       text |-> rows[idx[n]].text,
                       metadata |-> rows[idx[n]].metadata,
                       score |-> scores[idx[n]]]]]
                : idx \in top_indices(scores, top_k)}

\* search reads through the connection and changes nothing.
search(query, top_k) ==
    /\ Idle
    /\ \E res \in search_results(conn, query, top_k) :
          last' = [op |-> "search", path |-> "",
                   status |-> IF res.raised THEN "ValueError" ELSE "returned",
                   count |-> Len(res.results), query |-> query,
                   top_k |-> top_k, results |-> res.results]
    /\ UNCHANGED <<disk, db, conn, pc, queue, job>>
    /\ UNCHANGED <<jobs, chunk_chars, overlap, stats, gen>>

\* What the callers of search have put in the store: version v of a caller's
\* document has up to MaxSearchChunks chunks, and the embedding of chunk i is
\* a vector of width dimension + v - 1 with values among -1, 0 and 1.
SearchCalls ==
    {[document |-> [path |-> p, title |-> <<"caller", v>>,
                    sha256 |-> compute_sha256(v)],
      chunks |-> [i \in 1..n |->
                    [index |-> i - 1, text |-> <<<<"caller", v, i - 1>>>>,
                     metadata |-> [title |-> <<"caller", v>>]]],
      embeddings |-> Array(n, dimension + v - 1,
                           [i \in 1..n |->
                              [k \in 1..(dimension + v - 1) |->
                                 ((v + i * k) % 3) - 1]])]
     : p \in Paths, v \in 1..NumVersions, n \in 0..MaxSearchChunks}

\* The query vectors: of the store's dimension, values 0 and 1.
Queries == [1..dimension -> {0, 1}]

(***************************************************************************)
(* index/indexer.py                                                        *)
(***************************************************************************)
\* No document is in its batches.  For the one that is, job holds what
\* _index_single has in hand: the path, the id and status init_document
\* returned, the bytes read, the number of chunks consumed, and the calls of
\* the embedder made so far (their texts, and the number of rows of the
\* document on the connection when the call was made).
NoJob ==
    [path |-> "", doc_id |-> -1, status |-> "", bytes |-> NoFile, next |-> 0,
     calls |-> <<>>]

\* utils/files.py iter_pdf_paths over file arguments: the paths that are files
find_pdfs(paths, fs) == SelectSeq(paths, LAMBDA p : fs[p] /= NoFile)

PathLists ==
    {ps \in UNION {[1..n -> Paths] : n \in 1..MaxIndexPaths} :
        \A i, j \in 1..Len(ps) : i /= j => ps[i] /= ps[j]}

\* IndexStats(): the counters at 0, no processed file
IndexStats ==
    [inserted |-> 0, updated |-> 0, skipped |-> 0, failed |-> 0,
     processed_files |-> <<>>]

\* IndexStats.increment leaving the skipped documents out of the list.
increment_skipped_not_listed(st, status, path) ==
    IF status = "inserted"
    THEN [st EXCEPT !.inserted = @ + 1, !.processed_files = Append(@, path)]
    ELSE IF status = "updated"
    THEN [st EXCEPT !.updated = @ + 1, !.processed_files = Append(@, path)]
    ELSE IF status = "skipped"
    THEN [st EXCEPT !.skipped = @ + 1]
    ELSE [st EXCEPT !.failed = @ + 1, !.processed_files = Append(@, path)]

\* IndexStats.increment
increment(st, status, path) ==
    LET counted == IF status = "inserted" THEN [st EXCEPT !.inserted = @ + 1]
                   ELSE IF status = "updated" THEN [st EXCEPT !.updated = @ + 1]
                   ELSE IF status = "skipped" THEN [st EXCEPT !.skipped = @ + 1]
                   ELSE [st EXCEPT !.failed = @ + 1]
    IN [counted EXCEPT !.processed_files = Append(@, path)]

\* Indexer.index up to its loop
index(paths) ==
    /\ Idle
    /\ LET pdf_files == find_pdfs(paths, disk)
       IN IF pdf_files = <<>>
          THEN /\ last' = Result("index", "", "no_files", 0)
               /\ UNCHANGED <<pc, queue>>
          ELSE /\ queue' = pdf_files
               /\ pc' = "next"
               /\ last' = Result("index", "", "started", 0)
    /\ stats' = IndexStats
    /\ UNCHANGED <<disk, db, conn, job>>
    /\ UNCHANGED <<jobs, chunk_chars, overlap, gen>>

\* The loop of Indexer.index ended by the first failure: the exception is
\* counted and the documents after it are dropped.
DocumentDone_abort_on_failure(status) ==
    /\ last' = Result("index_single", Head(queue), status,
                      IF status = "failed" THEN job.next ELSE 0)
    /\ stats' = increment(stats, status, Head(queue))
    /\ queue' = IF status = "failed" THEN <<>> ELSE Tail(queue)
    /\ pc' = "next"
    /\ job' = NoJob

\* One document is done with `status`: stats.increment(status, path) when
\* _index_single returned, the except branch of Indexer.index when it raised
\* ("failed"); then the loop moves on.
DocumentDone(status) ==
    /\ last' = Result("index_single", Head(queue), status,
                      IF status = "failed" THEN job.next ELSE 0)
    /\ stats' = IF status = "failed"
                THEN [stats EXCEPT !.failed = @ + 1,
                                   !.processed_files = Append(@, Head(queue))]
                ELSE increment(stats, status, Head(queue))
    /\ queue' = Tail(queue)
    /\ pc' = "next"
    /\ job' = NoJob

\* _index_single without the peek at the first chunk: a file that yields no
\* chunk is hashed and stored like any other.
index_single_begin_no_peek ==
    /\ pc = "next"
    /\ queue /= <<>>
    /\ LET path == Head(queue)
           bytes == disk[path]
       IN IF bytes = NoFile
          THEN /\ DocumentDone("skipped")
               /\ UNCHANGED <<db, conn>>
          ELSE
            LET document == [path |-> path, title |-> TitleOf(bytes),
                             sha256 |-> compute_sha256(bytes)]
                r == init_document(conn, document)
            IN /\ r.doc_id <= MaxDocId
               /\ IF r.raised \/ r.status = "skipped"
                  THEN LET tx == transaction(db, r.st, r.raised)
                       IN /\ db' = tx.db
                          /\ conn' = tx.conn
                          /\ DocumentDone(IF tx.raised THEN "failed" ELSE "skipped")
                  ELSE /\ conn' = r.st
                       /\ pc' = "batch"
                       /\ job' = [path |-> path, doc_id |-> r.doc_id,
                                  status |-> r.status, bytes |-> bytes,
                                  next |-> 0, calls |-> <<>>]
                       /\ UNCHANGED <<db, queue, last, stats>>
    /\ UNCHANGED <<disk, jobs, chunk_chars, overlap, gen>>

\* _index_single up to the first batch: peek the first chunk, hash the file,
\* open the transaction and call init_document.
index_single_begin ==
    /\ pc = "next"
    /\ queue /= <<>>
    /\ LET path == Head(queue)
           bytes == disk[path]
       IN IF bytes = NoFile \/ ChunkCountOf(bytes) = 0
          THEN /\ DocumentDone("skipped")
               /\ UNCHANGED <<db, conn>>
          ELSE
            LET document == [path |-> path, title |-> TitleOf(bytes),
                             sha256 |-> compute_sha256(bytes)]
                r == init_document(conn, document)
            IN /\ r.doc_id <= MaxDocId
               /\ IF r.raised \/ r.status = "skipped"
                  THEN LET tx == transaction(db, r.st, r.raised)
                       IN /\ db' = tx.db
                          /\ conn' = tx.conn
                          /\ DocumentDone(IF tx.raised THEN "failed" ELSE "skipped")
                  ELSE /\ conn' = r.st
                       /\ pc' = "batch"
                       /\ job' = [path |-> path, doc_id |-> r.doc_id,
                                  status |-> r.status, bytes |-> bytes,
                                  next |-> 0, calls |-> <<>>]
                       /\ UNCHANGED <<db, queue, last, stats>>
    /\ UNCHANGED <<disk, jobs, chunk_chars, overlap, gen>>

\* _index_single raising before its transaction: after the first chunk was
\* read, compute_sha256(path) or path.stat() fails (the file cannot be read
\* any more).  The store is not touched.
index_single_hash_raises ==
    /\ pc = "next"
    /\ queue /= <<>>
    /\ disk[Head(queue)] /= NoFile
    /\ ChunkCountOf(disk[Head(queue)]) > 0
    /\ DocumentDone("failed")
    /\ UNCHANGED <<disk, db, conn, jobs, chunk_chars, overlap, gen>>

\* The batches without `current_batch = []`: a batch holds every chunk read
\* so far.
NextBatch_not_reset(j) ==
    LET all == build_chunks(j.bytes)
        upto == IF j.next + batch_size < Len(all)
                THEN j.next + batch_size ELSE Len(all)
    IN SubSeq(all, 1, upto)

\* No batches: every chunk of the document in one list.
NextBatch_whole_document(j) ==
    LET all == build_chunks(j.bytes)
    IN SubSeq(all, j.next + 1, Len(all))

\* The chunks of the next batch: at most batch_size of them, in order.
NextBatch(j) ==
    LET all == build_chunks(j.bytes)
        upto == IF j.next + batch_size < Len(all)
                THEN j.next + batch_size ELSE Len(all)
    IN SubSeq(all, j.next + 1, upto)

\* embedder.embed(texts): one row per text, of the embedder's dimension,
\* which is the dimension the store was opened with (cli.py, web/app.py);
\* a vector is a function of its text, here of where the text starts.
embed(texts) ==
    Array(Len(texts), dimension,
          [i \in 1..Len(texts) |->
              [k \in 1..dimension |->
                 (((IF texts[i] = <<>> THEN 0 ELSE texts[i][1][3]) + k) % 3) - 1]])

\* One batch: embed it and insert it; embedder_ok = FALSE is the embedder
\* raising.
index_single_batch(embedder_ok) ==
    /\ pc = "batch"
    /\ job.next < ChunkCountOf(job.bytes)
    /\ LET batch == NextBatch(job)
           texts == [i \in 1..Len(batch) |-> batch[i].text]
           call == [texts |-> texts,
                    stored |-> Cardinality({c \in conn.chunks :
                                              c.document_id = job.doc_id})]
           r == IF embedder_ok
                THEN insert_chunks(conn, job.doc_id, batch, embed(texts))
                ELSE [st |-> conn, raised |-> TRUE]
       IN IF r.raised
          THEN LET tx == transaction(db, r.st, TRUE)
               IN /\ db' = tx.db
                  /\ conn' = tx.conn
                  /\ DocumentDone(IF tx.raised THEN "failed" ELSE job.status)
          ELSE /\ conn' = r.st
               /\ job' = [job EXCEPT !.next = job.next + Len(batch),
                                     !.calls = Append(@, call)]
               /\ UNCHANGED <<db, pc, queue, last, stats>>
    /\ UNCHANGED <<disk, jobs, chunk_chars, overlap, gen>>

\* The with block of _index_single ends normally.
index_single_commit ==
    /\ pc = "batch"
    /\ job.next = ChunkCountOf(job.bytes)
    /\ LET tx == transaction(db, conn, FALSE)
       IN /\ db' = tx.db
          /\ conn' = tx.conn
          /\ DocumentDone(IF tx.raised THEN "failed" ELSE job.status)
    /\ UNCHANGED <<disk, jobs, chunk_chars, overlap, gen>>

\* Indexer.index returns its stats; the IndexStats of the call is the
\* caller's from then on.
index_return ==
    /\ pc = "next"
    /\ queue = <<>>
    /\ pc' = "idle"
    /\ last' = Result("index", "", "returned", Len(stats.processed_files))
    /\ stats' = IndexStats
    /\ UNCHANGED <<disk, db, conn, queue, job>>
    /\ UNCHANGED <<jobs, chunk_chars, overlap, gen>>

(***************************************************************************)
(* web/app.py _run_index_job: two index jobs, each with its own store on    *)
(* the one database file.  A job is a thread of the server (or another      *)
(* process); its connection is in WAL mode, sqlite3's default isolation:    *)
(* a SELECT outside a transaction reads the committed file, the first       *)
(* DELETE or INSERT begins the transaction and takes the file's write lock, *)
(* which one connection holds at a time, until commit or rollback.  Nothing *)
(* a connection wrote is seen by the other before the commit.               *)
(***************************************************************************)
IndexJobs == {1, 2}
OtherJob(i) == 3 - i

\* The files the jobs find: one path holds the file of one chunk, then the
\* file of more chunks than a batch holds, or the reverse; the other path
\* holds a file that does not change.
JobFiles == {<<"a.pdf", 2>>, <<"a.pdf", 3>>, <<"b.pdf", 2>>}

\* A job that is not running.  For one that is, the path it is at, the bytes
\* it read, the row its SELECT returned, its connection's view inside its
\* transaction, what init_document returned, the chunks consumed, and raced:
\* the other job was between its own SELECT and the end of its transaction
\* on the same path while this one was.
NoIndexJob ==
    [pc |-> "idle", path |-> "", bytes |-> NoFile, existing |-> None,
     working |-> EmptyStore, doc_id |-> -1, status |-> "", next |-> 0,
     raced |-> FALSE]

\* The job has classified its document.
JobDone(j, status) ==
    [j EXCEPT !.pc = "done", !.status = status, !.working = EmptyStore,
              !.existing = None, !.doc_id = -1, !.next = 0,
              !.bytes = NoFile]

\* init_document after its SELECT, documents.path not UNIQUE.
init_document_from_not_unique(st, existing, document) ==
    LET chunks1 == IF existing /= None
                   THEN {c \in st.chunks : c.document_id /= existing.id}
                   ELSE st.chunks
        docs1 == IF existing /= None
                 THEN {r \in st.docs : r.id /= existing.id}
                 ELSE st.docs
        doc_id == NextRowId(docs1)
        row == [id |-> doc_id,
                path |-> document.path,
                title |-> document.title,
                sha256 |-> document.sha256]
    IN [st |-> [docs |-> docs1 \cup {row}, chunks |-> chunks1],
        doc_id |-> doc_id,
        status |-> IF existing /= None THEN "updated" ELSE "inserted",
        raised |-> FALSE]

\* init_document after its SELECT returned `existing` with another hash or
\* no row: the DELETEs by existing["id"] and the INSERT, on the file as it
\* is when the transaction begins.
init_document_from(st, existing, document) ==
    LET chunks1 == IF existing /= None
                   THEN {c \in st.chunks : c.document_id /= existing.id}
                   ELSE st.chunks
        docs1 == IF existing /= None
                 THEN {r \in st.docs : r.id /= existing.id}
                 ELSE st.docs
        doc_id == NextRowId(docs1)
        row == [id |-> doc_id,
                path |-> document.path,
                title |-> document.title,
                sha256 |-> document.sha256]
    IN IF \E r \in docs1 : r.path = document.path
       THEN [st |-> st, doc_id |-> -1, status |-> "error", raised |-> TRUE]
       ELSE [st |-> [docs |-> docs1 \cup {row}, chunks |-> chunks1],
             doc_id |-> doc_id,
             status |-> IF existing /= None THEN "updated" ELSE "inserted",
             raised |-> FALSE]

\* The other job holds the write lock of the file.
WriteLocked(i) == jobs[OtherJob(i)].pc = "writing"

\* The other job is between its SELECT and the end of its transaction on p.
InFlight(i, p) ==
    /\ jobs[OtherJob(i)].pc \in {"selected", "writing"}
    /\ jobs[OtherJob(i)].path = p

\* _run_index_job over [p], up to the SELECT of init_document and the
\* comparison of the hashes.
run_index_job(i, p) ==
    /\ Idle
    /\ jobs[i].pc = "idle"
    /\ disk[p] /= NoFile
    /\ LET bytes == disk[p]
           existing == SelectByPath(db, p)
           started == [NoIndexJob EXCEPT !.path = p, !.bytes = bytes]
       IN IF ChunkCountOf(bytes) = 0
          THEN jobs' = [jobs EXCEPT ![i] = JobDone(started, "skipped")]
          ELSE IF existing /= None /\ existing.sha256 = compute_sha256(bytes)
          THEN jobs' = [jobs EXCEPT ![i] = JobDone(started, "skipped")]
          ELSE jobs' = [j \in IndexJobs |->
                          IF j = i
                          THEN [started EXCEPT !.pc = "selected",
                                               !.existing = existing,
                                               !.raced = InFlight(i, p)]
                          ELSE [jobs[j] EXCEPT
                                  !.raced = @ \/ InFlight(i, p)]]
    /\ UNCHANGED <<disk, db, conn, pc, queue, job, last>>
    /\ UNCHANGED <<chunk_chars, overlap, stats, gen>>

\* The first DELETE or INSERT of init_document when no connection holds the
\* write lock: the transaction begins on the file as committed by then.
\* The INSERT raising IntegrityError ends the document: rollback, failed.
job_init_document(i) ==
    /\ jobs[i].pc = "selected"
    /\ ~WriteLocked(i)
    /\ LET j == jobs[i]
           document == [path |-> j.path, title |-> TitleOf(j.bytes),
                        sha256 |-> compute_sha256(j.bytes)]
           r == init_document_from(db, j.existing, document)
       IN /\ r.doc_id <= MaxDocId
          /\ jobs' = [jobs EXCEPT ![i] =
                        IF r.raised
                        THEN JobDone(j, "failed")
                        ELSE [j EXCEPT !.pc = "writing", !.working = r.st,
                                       !.doc_id = r.doc_id,
                                       !.status = r.status]]
    /\ UNCHANGED <<disk, db, conn, pc, queue, job, last>>
    /\ UNCHANGED <<chunk_chars, overlap, stats, gen>>

\* The first DELETE or INSERT of init_document while the other connection
\* holds the write lock for longer than the connection's timeout:
\* OperationalError (database is locked), rollback, failed.
job_database_is_locked(i) ==
    /\ jobs[i].pc = "selected"
    /\ WriteLocked(i)
    /\ jobs' = [jobs EXCEPT ![i] = JobDone(jobs[i], "failed")]
    /\ UNCHANGED <<disk, db, conn, pc, queue, job, last>>
    /\ UNCHANGED <<chunk_chars, overlap, stats, gen>>

\* One batch of a job inside its transaction; embedder_ok = FALSE is the
\* embedder raising, which rolls the transaction back.
job_batch(i, embedder_ok) ==
    /\ jobs[i].pc = "writing"
    /\ jobs[i].next < ChunkCountOf(jobs[i].bytes)
    /\ LET j == jobs[i]
           batch == NextBatch(j)
           texts == [k \in 1..Len(batch) |-> batch[k].text]
           r == IF embedder_ok
                THEN insert_chunks(j.working, j.doc_id, batch, embed(texts))
                ELSE [st |-> j.working, raised |-> TRUE]
       IN jobs' = [jobs EXCEPT ![i] =
                     IF r.raised
                     THEN JobDone(j, "failed")
                     ELSE [j EXCEPT !.working = r.st,
                                    !.next = j.next + Len(batch)]]
    /\ UNCHANGED <<disk, db, conn, pc, queue, job, last>>
    /\ UNCHANGED <<chunk_chars, overlap, stats, gen>>

\* The with block of a job ends normally: commit, the write lock is free.
job_commit(i) ==
    /\ jobs[i].pc = "writing"
    /\ jobs[i].next = ChunkCountOf(jobs[i].bytes)
    /\ db' = jobs[i].working
    /\ jobs' = [jobs EXCEPT ![i] = JobDone(jobs[i], jobs[i].status)]
    /\ UNCHANGED <<disk, conn, pc, queue, job, last>>
    /\ UNCHANGED <<chunk_chars, overlap, stats, gen>>

\* _run_index_job returns its stats and closes its store.
job_close(i) ==
    /\ jobs[i].pc = "done"
    /\ jobs' = [jobs EXCEPT ![i] = NoIndexJob]
    /\ UNCHANGED <<disk, db, conn, pc, queue, job, last>>
    /\ UNCHANGED <<chunk_chars, overlap, stats, gen>>

(***************************************************************************)
(* index/search.py, and the search commands of web/app.py and cli.py       *)
(***************************************************************************)
\* The characters of a query text: a blank and a letter.
Space == Char(NoFile, 0)
Letter == Char(NoFile, 1)

\* The query texts a user types.
QueryTexts == UNION {[1..n -> {Space, Letter}] : n \in 0..MaxQueryLen}

\* str.strip(): the text without its leading and trailing whitespace
RECURSIVE strip(_)
strip(text) ==
    IF text = <<>> THEN <<>>
    ELSE IF Head(text) = Space THEN strip(Tail(text))
    ELSE IF text[Len(text)] = Space THEN strip(SubSeq(text, 1, Len(text) - 1))
    ELSE text

\* json.loads of what json.dumps wrote
json_loads(blob) == blob[2]

\* EmbeddingModel.embed_query(text): self.embed([text])[0]
embed_query(text) == embed(<<text>>).data[1]

\* Searcher.search(query, top_k=top_k): what it may do on the store st.  It
\* embeds the query, searches the store and turns the rows into
\* SearchResult; embed_calls and store_calls are the calls it made, in order.
Searcher_search(st, query, top_k) ==
    LET embedding == embed_query(query)
    IN {[raised |-> r.raised,
         embed_calls |-> <<query>>,
         store_calls |-> <<[embedding |-> embedding, top_k |-> top_k]>>,
         results |-> [n \in 1..Len(r.results) |->
                        [path |-> r.results[n].path,
                         title |-> r.results[n].title,
                         chunk_index |-> r.results[n].chunk_index,
                         score |-> r.results[n].score,
                         text |-> r.results[n].text,
                         metadata |-> json_loads(r.results[n].metadata)]]]
        : r \in search_results(st, embedding, top_k)}

\* What a search command did: the text it was given, the calls of the
\* embedder and of the store it made, and what it answered.
SearchOutcome(op, status, text, top_k, embed_calls, store_calls, results) ==
    [op |-> op, path |-> "", status |-> status, count |-> Len(results),
     text |-> text, top_k |-> top_k, embed_calls |-> embed_calls,
     store_calls |-> store_calls, results |-> results]

\* POST /search (web/app.py search_documents) on an existing database
search_documents(payload_query, payload_top_k) ==
    /\ Idle
    /\ LET query == strip(payload_query)
           lower == IF payload_top_k < MaxWebTopK THEN payload_top_k
                    ELSE MaxWebTopK
           top_k == Maximum(1, lower)
       IN IF query = <<>>
          THEN last' = SearchOutcome("search_documents", "HTTP 400",
                                     payload_query, payload_top_k,
                                     <<>>, <<>>, <<>>)
          ELSE \E r \in Searcher_search(conn, query, top_k) :
                  last' = SearchOutcome("search_documents",
                                        IF r.raised THEN "ValueError"
                                        ELSE "returned",
                                        payload_query, payload_top_k,
                                        r.embed_calls, r.store_calls,
                                        r.results)
    /\ UNCHANGED <<disk, db, conn, pc, queue, job>>
    /\ UNCHANGED <<jobs, chunk_chars, overlap, stats, gen>>

\* docfinder search QUERY --top-k N (cli.py search) on an existing database
cli_search(query, top_k) ==
    /\ Idle
    /\ \E r \in Searcher_search(conn, query, top_k) :
          last' = SearchOutcome("cli_search",
                                IF r.raised THEN "ValueError" ELSE "returned",
                                query, top_k,
                                r.embed_calls, r.store_calls, r.results)
    /\ UNCHANGED <<disk, db, conn, pc, queue, job>>
    /\ UNCHANGED <<jobs, chunk_chars, overlap, stats, gen>>

(***************************************************************************)
(* The file system: files appear, change and disappear between the calls.  *)
(* While index runs, the one change its loop can tell from a change made    *)
(* before the call is a listed file that is gone when its turn comes:       *)
(* find_pdfs looks at which files exist, _index_single reads a file when    *)
(* its turn comes, so a file written during the loop is read as if written  *)
(* before the call, and what happens to a file that is not waiting in the   *)
(* loop is seen by no step before index returns.                            *)
(***************************************************************************)
WriteFile(p, b) ==
    /\ Idle
    /\ disk[p] /= b
    /\ disk' = [disk EXCEPT ![p] = b]
    /\ UNCHANGED <<db, conn, pc, queue, job, last>>
    /\ UNCHANGED <<jobs, chunk_chars, overlap, stats, gen>>

DeleteFile(p) ==
    /\ Idle \/ (pc = "next" /\ \E i \in 1..Len(queue) : queue[i] = p)
    /\ disk[p] /= NoFile
    /\ disk' = [disk EXCEPT ![p] = NoFile]
    /\ UNCHANGED <<db, conn, pc, queue, job, last>>
    /\ UNCHANGED <<jobs, chunk_chars, overlap, stats, gen>>

\* No call of the chunker.
NoGen ==
    [text_stream |-> <<>>, max_chars |-> 0, overlap |-> 0, called |-> {},
     stream_chunks |-> <<>>, text_chunks |-> <<>>, buffers |-> <<>>]

\* A new store on an empty database file, no file on disk, no call made.
Fresh ==
    /\ disk = [p \in Paths |-> NoFile]
    /\ db = EmptyStore
    /\ conn = EmptyStore
    /\ pc = "idle"
    /\ queue = <<>>
    /\ job = NoJob
    /\ last = Result("", "", "", 0)
    /\ stats = IndexStats
    /\ jobs = [i \in IndexJobs |-> NoIndexJob]

Init ==
    /\ Fresh
    /\ chunk_chars = ModelChunkChars
    /\ overlap = ModelOverlap
    /\ gen = NoGen

\* The store and the indexing pipeline together.
Next ==
    \/ \E call \in PipelineCalls :
          upsert_document(call.document, call.chunks, call.embeddings)
    \/ remove_missing_files
    \/ open_store
    \/ \E ps \in PathLists : index(ps)
    \/ index_single_begin
    \/ index_single_hash_raises
    \/ \E ok \in BOOLEAN : index_single_batch(ok)
    \/ index_single_commit
    \/ index_return
    \/ \E p \in Paths, b \in Contents : WriteFile(p, b)
    \/ \E p \in Paths : DeleteFile(p)

Spec == Init /\ [][Next]_vars

\* The store alone, under every call of upsert_document.
NextStore ==
    \/ \E call \in UpsertCalls :
          upsert_document(call.document, call.chunks, call.embeddings)
    \/ remove_missing_files
    \/ \E p \in Paths : WriteFile(p, 1)
    \/ \E p \in Paths : DeleteFile(p)

SpecStore == Init /\ [][NextStore]_vars

\* Two index jobs on the one database file, the files changing meanwhile.
NextJobs ==
    \/ \E i \in IndexJobs, p \in Paths : run_index_job(i, p)
    \/ \E i \in IndexJobs : job_init_document(i)
    \/ \E i \in IndexJobs : job_database_is_locked(i)
    \/ \E i \in IndexJobs, ok \in BOOLEAN : job_batch(i, ok)
    \/ \E i \in IndexJobs : job_commit(i)
    \/ \E i \in IndexJobs : job_close(i)
    \/ \E f \in JobFiles : WriteFile(f[1], f[2])

SpecJobs == Init /\ [][NextJobs]_vars

\* The store under upsert_document and search.
NextSearch ==
    \/ \E call \in SearchCalls :
          upsert_document(call.document, call.chunks, call.embeddings)
    \/ \E query \in Queries, top_k \in 0..MaxTopK : search(query, top_k)

SpecSearch == Init /\ [][NextSearch]_vars

\* The search commands on a store that callers fill.
NextQuery ==
    \/ \E call \in SearchCalls :
          upsert_document(call.document, call.chunks, call.embeddings)
    \/ \E text \in QueryTexts, top_k \in 0..MaxTopK :
          search_documents(text, top_k)
    \/ \E text \in QueryTexts, top_k \in 0..MaxTopK : cli_search(text, top_k)

SpecQuery == Init /\ [][NextQuery]_vars

(***************************************************************************)
(* The chunker of utils/text.py on its own: a text stream, max_chars and   *)
(* overlap are drawn, and both chunkers are called on them.                *)
(***************************************************************************)
RECURSIVE SumLens(_, _)
SumLens(lens, j) == IF j = 0 THEN 0 ELSE SumLens(lens, j - 1) + lens[j]

\* The text stream whose fragments have the lengths `lens`: the characters
\* of a text, numbered through the fragments.
StreamOf(lens) ==
    [j \in 1..Len(lens) |->
        [i \in 1..lens[j] |-> Char(NoFile, SumLens(lens, j - 1) + i)]]

TextStreams ==
    {StreamOf(lens) : lens \in UNION {[1..n -> 0..MaxPartLen] : n \in 0..MaxParts}}

\* "".join(text_stream)
RECURSIVE Concat(_)
Concat(parts) == IF parts = <<>> THEN <<>> ELSE Head(parts) \o Concat(Tail(parts))

\* list(chunk_text_stream(text_stream, max_chars=..., overlap=...))
call_chunk_text_stream ==
    /\ "chunk_text_stream" \notin gen.called
    /\ gen.max_chars > 0
    /\ gen' = [gen EXCEPT
                  !.called = @ \cup {"chunk_text_stream"},
                  !.stream_chunks =
                      chunk_text_stream(gen.text_stream, gen.max_chars, gen.overlap),
                  !.buffers =
                      chunk_buffers(gen.text_stream, <<>>, gen.max_chars,
                                    Maximum(gen.max_chars - gen.overlap, 1))]
    /\ UNCHANGED <<disk, db, conn, pc, queue, job, last>>
    /\ UNCHANGED <<jobs, chunk_chars, overlap, stats>>

\* list(chunk_text("".join(text_stream), max_chars=..., overlap=...))
call_chunk_text ==
    /\ "chunk_text" \notin gen.called
    /\ gen.max_chars > 0
    /\ gen' = [gen EXCEPT
                  !.called = @ \cup {"chunk_text"},
                  !.text_chunks =
                      chunk_text(Concat(gen.text_stream), gen.max_chars, gen.overlap)]
    /\ UNCHANGED <<disk, db, conn, pc, queue, job, last>>
    /\ UNCHANGED <<jobs, chunk_chars, overlap, stats>>

InitChunker ==
    /\ Fresh
    /\ chunk_chars = ModelChunkChars
    /\ overlap = ModelOverlap
    /\ gen \in {[text_stream |-> ts, max_chars |-> m, overlap |-> o,
                  called |-> {}, stream_chunks |-> <<>>, text_chunks |-> <<>>,
                  buffers |-> <<>>]
                 : ts \in TextStreams,
                   m \in 1..MaxChunkChars, o \in 0..(MaxChunkChars - 1)}
    /\ gen.overlap < gen.max_chars

NextChunker == call_chunk_text_stream \/ call_chunk_text

SpecChunker == InitChunker /\ [][NextChunker]_vars

(***************************************************************************)
(* The end-to-end example: an Indexer with chunk_chars = 300 and           *)
(* overlap = 50, and files whose single page has 1000 characters.          *)
(***************************************************************************)
InitExample ==
    /\ Fresh
    /\ chunk_chars = ExampleChunkChars
    /\ overlap = ExampleOverlap
    /\ gen = NoGen

NextExample ==
    \/ \E ps \in PathLists : index(ps)
    \/ index_single_begin
    \/ index_single_hash_raises
    \/ \E ok \in BOOLEAN : index_single_batch(ok)
    \/ index_single_commit
    \/ index_return
    \/ \E p \in Paths, b \in {ExampleFile, CorruptFile} : WriteFile(p, b)
    \/ \E p \in Paths : DeleteFile(p)

SpecExample == InitExample /\ [][NextExample]_vars

(***************************************************************************)
(* Properties.                                                             *)
(***************************************************************************)
RowsAt(st, path) == {r \in st.docs : r.path = path}
ChunksOf(st, id) == {c \in st.chunks : c.document_id = id}
\* The calls of a set that a step ending with result `res` may have been.
CallsFor(calls, res) ==
    IF res.op = "upsert_document"
    THEN {c \in calls : c.document.path = res.path}
    ELSE {}

ChunksAt(st, path) ==
    {c \in st.chunks : \E r \in RowsAt(st, path) : r.id = c.document_id}

\* The document _index_single builds for the file at the head of the queue.
HeadDocument ==
    [path |-> Head(queue), title |-> TitleOf(disk[Head(queue)]),
     sha256 |-> compute_sha256(disk[Head(queue)])]

\* _index_single reaches init_document: the file yields a first chunk.
ReachesInitDocument ==
    /\ pc = "next" /\ queue /= <<>>
    /\ disk[Head(queue)] /= NoFile
    /\ ChunkCountOf(disk[Head(queue)]) > 0

\* The status the store's rows call for.
StatusFor(st, document) ==
    IF \E r \in RowsAt(st, document.path) : r.sha256 = document.sha256
    THEN "skipped"
    ELSE IF RowsAt(st, document.path) /= {} THEN "updated" ELSE "inserted"

\* After a replacement or an insertion the path has one row, the fresh one.
FreshRow(before, after, document) ==
    /\ RowsAt(before, document.path) \cap after.docs = {}
    /\ \E r \in after.docs :
          /\ RowsAt(after, document.path) = {r}
          /\ r.sha256 = document.sha256
          /\ r.title = document.title
          /\ r.id \notin {o.id : o \in before.docs \ RowsAt(before, document.path)}

\* init_document's status is what upsert_document returns when insert_chunks
\* accepts the call: as many embedding rows as chunks.
C1_Upsert(call) ==
    (/\ call.embeddings.rows = Len(call.chunks)
     /\ upsert_document(call.document, call.chunks, call.embeddings)) =>
        /\ last'.status = StatusFor(conn, call.document)
        /\ last'.status \in {"skipped", "updated", "inserted"}
        /\ last'.status /= "skipped" => FreshRow(conn, conn', call.document)

C1_Index ==
    (ReachesInitDocument /\ index_single_begin) =>
        IF StatusFor(conn, HeadDocument) = "skipped"
        THEN pc' = "next" /\ last'.status = "skipped"
        ELSE /\ pc' = "batch"
             /\ job'.status = StatusFor(conn, HeadDocument)
             /\ FreshRow(conn, conn', HeadDocument)

\* C1: init_document, called by upsert_document or by _index_single, returns
\* skipped when a row with the document's path and hash is stored, updated
\* when a row with the path and another hash is stored (that row is deleted
\* and a fresh one inserted), inserted when the path has no row (a fresh row
\* is inserted), and nothing else.
C1_InitDocumentStatus ==
    [][(\A call \in CallsFor(PipelineCalls, last') : C1_Upsert(call))
       /\ C1_Index]_vars

\* C1: a stored document was replaced by upsert_document.
C1_Witness ==
    /\ last.op = "upsert_document"
    /\ last.status = "updated"
    /\ RowsAt(db, last.path) /= {}

\* The (index, text) pairs of a set of chunk rows.
Texts(rows) == {[index |-> c.chunk_index, text |-> c.text] : c \in rows}

\* The chunk sequence of a file, as a set.
ChunkSet(bytes) ==
    LET chunks == build_chunks(bytes)
    IN {[index |-> chunks[i].index, text |-> chunks[i].text]
        : i \in 1..Len(chunks)}

\* Every row the indexer wrote (its title is the file's) has the whole chunk
\* sequence of its file, each chunk once.
IndexedWhole(st) ==
    \A d \in st.docs : \A b \in Contents :
        d.title = TitleOf(b) =>
            /\ d.sha256 = compute_sha256(b)
            /\ LET stored == ChunksOf(st, d.id)
                   whole == ChunkSet(b)
               IN /\ Texts(stored) = whole
                  /\ Cardinality(stored) = Cardinality(whole)

\* The step in which the transaction of _index_single ends by an exception,
\* and the one in which it ends normally.
IndexFails == pc = "batch" /\ pc' = "next" /\ last'.status = "failed"
IndexCommits == pc = "batch" /\ pc' = "next" /\ last'.status /= "failed"

\* C2: when a document fails after init_document ran, in whatever batch, the
\* database is what it was before the document was processed (the file is
\* not written while the transaction is open, the failure leaves it as it
\* is and leaves nothing pending on the connection), and no committed state
\* holds an indexed document with part of its chunks.
C2_FailedDocumentLeavesNoTrace ==
    [][/\ IndexFails => (db' = db /\ conn' = db)
       /\ (pc = "batch" /\ ~IndexCommits) => db' = db
       /\ pc' = "next" => conn' = db'
       /\ IndexedWhole(db')]_vars

\* C2: a document failed in its second or a later batch, and the version
\* stored before is still there with its chunks.
C2_Witness ==
    /\ last.op = "index_single" /\ last.status = "failed"
    /\ last.count >= batch_size
    /\ \E r \in RowsAt(db, last.path) :
          /\ r.sha256 /= compute_sha256(disk[last.path])
          /\ ChunksOf(db, r.id) /= {}
    /\ conn = db

C3_Upsert(call) ==
    upsert_document(call.document, call.chunks, call.embeddings) =>
        IF /\ StatusFor(conn, call.document) /= "skipped"
           /\ call.embeddings.rows /= Len(call.chunks)
        THEN /\ last'.status = "ValueError"
             /\ db' = db
             /\ conn' = db
        ELSE /\ last'.status \in {"skipped", "updated", "inserted"}
             /\ db' = conn'
             /\ last'.status /= "skipped" =>
                  /\ FreshRow(db, db', call.document)
                  /\ Texts(ChunksAt(db', call.document.path))
                       = {[index |-> call.chunks[i].index,
                           text |-> call.chunks[i].text]
                          : i \in 1..Len(call.chunks)}

\* C3: a transaction scope that completes normally commits what was done in
\* it (upsert_document's new row and chunks, remove_missing_files'
\* deletions, the rows of _index_single are in the file afterwards); one in
\* which an exception is raised (the length mismatch of insert_chunks, a
\* failing batch) leaves the file and the connection as they were before the
\* scope, and the caller gets the exception.
C3_TransactionCommitsOrRollsBack ==
    [][/\ \A call \in CallsFor(PipelineCalls, last') : C3_Upsert(call)
       /\ remove_missing_files =>
            /\ db' = conn'
            /\ MissingRows(db', disk) = {}
            /\ last'.status = "returned"
       /\ IndexCommits => (db' = conn /\ conn' = conn)
       /\ IndexFails => (db' = db /\ conn' = db)]_vars

\* C3: upsert_document raised after init_document had deleted the stored row
\* of the path, and the row and its chunks are in the file.
C3_Witness ==
    /\ last.op = "upsert_document" /\ last.status = "ValueError"
    /\ ChunksAt(db, last.path) /= {}
    /\ conn = db

C4_Upsert(call) ==
    (/\ upsert_document(call.document, call.chunks, call.embeddings)
     /\ \E r \in RowsAt(db, call.document.path) :
           r.sha256 = call.document.sha256) =>
        /\ last'.status = "skipped"
        /\ db' = db
        /\ conn' = conn

C4_Index ==
    (/\ pc = "next" /\ queue /= <<>> /\ index_single_begin
     /\ disk[Head(queue)] /= NoFile
     /\ \/ ChunkCountOf(disk[Head(queue)]) = 0
        \/ \E r \in RowsAt(db, Head(queue)) : r.sha256 = HeadDocument.sha256) =>
        /\ last'.status = "skipped"
        /\ pc' = "next"
        /\ db' = db
        /\ conn' = conn

\* C4: indexing a file whose hash is the stored one (or that yields no
\* chunk, which is what a first run that did not fail leaves behind) is
\* skipped and leaves every document row and chunk row as it is; so does
\* upsert_document with a stored path and hash, whatever title and chunks it
\* is given.
C4_UnchangedIsSkippedAndUntouched ==
    [][(\A call \in CallsFor(PipelineCalls, last') : C4_Upsert(call))
       /\ C4_Index]_vars

\* C4: a file was indexed, is unmodified and was skipped by a later run.
C4_Witness ==
    /\ last.op = "index_single" /\ last.status = "skipped"
    /\ disk[last.path] /= NoFile
    /\ \E r \in RowsAt(db, last.path) :
          /\ r.sha256 = compute_sha256(disk[last.path])
          /\ r.title = TitleOf(disk[last.path])
          /\ ChunksOf(db, r.id) /= {}

\* C5: re-indexing a stored path whose hash changed is an update: after
\* init_document no chunk of the path is left, and when the document is done
\* its status is updated and the chunks stored for the path are the chunks of
\* the new content, each once, and no chunk is left without its document.
C5_ReindexReplacesChunks ==
    [][/\ (ReachesInitDocument /\ index_single_begin
             /\ StatusFor(conn, HeadDocument) = "updated") =>
            /\ job'.status = "updated"
            /\ ChunksAt(conn', Head(queue)) = {}
            /\ \A c \in conn'.chunks : \E d \in conn'.docs : d.id = c.document_id
       /\ (IndexCommits /\ job.status = "updated") =>
            /\ last'.status = "updated"
            /\ Texts(ChunksAt(db', job.path)) = ChunkSet(job.bytes)
            /\ Cardinality(ChunksAt(db', job.path)) = ChunkCountOf(job.bytes)
            /\ \A c \in db'.chunks : \E d \in db'.docs : d.id = c.document_id]_vars

\* C5: a stored document was re-indexed with new content in several batches.
C5_Witness ==
    /\ last.op = "index_single" /\ last.status = "updated"
    /\ Cardinality(ChunksAt(db, last.path)) > batch_size

\* upsert_document is given a number of embedding rows that is not its
\* number of chunks.
Mismatch(call) == call.embeddings.rows /= Len(call.chunks)

C6_Step(call) ==
    upsert_document(call.document, call.chunks, call.embeddings) /\ Mismatch(call)

\* C6 as claimed: upsert_document with as many embedding rows as not chunks
\* fails with the mismatch error and changes nothing, whatever is stored.
C6_MismatchAlwaysFails ==
    [][\A call \in CallsFor(PipelineCalls, last') :
          C6_Step(call) =>
             /\ last'.status = "ValueError"
             /\ db' = db
             /\ conn' = db]_vars

\* C6, amended: upsert_document with a length mismatch changes nothing,
\* whatever is stored (a stored row of the path with another hash, and its
\* chunks, survive); it fails with the mismatch error unless a row with the
\* path and the hash is stored, and then it returns skipped.  insert_chunks
\* itself fails on every mismatch and writes nothing.
C6_MismatchChangesNothing ==
    [][\A call \in CallsFor(PipelineCalls, last') :
          C6_Step(call) =>
             /\ db' = db
             /\ conn' = db
             /\ last'.status =
                  IF \E r \in RowsAt(db, call.document.path) :
                        r.sha256 = call.document.sha256
                  THEN "skipped" ELSE "ValueError"
             /\ \A id \in 1..MaxDocId :
                  LET r == insert_chunks(conn, id, call.chunks, call.embeddings)
                  IN r.raised /\ r.st = conn]_vars

\* C6: the mismatch error was raised for a path that is stored, and its row
\* is in the file.
C6_Witness ==
    /\ last.op = "upsert_document" /\ last.status = "ValueError"
    /\ \E r \in RowsAt(db, last.path) : ChunksOf(db, r.id) /= {}
    /\ Cardinality(db.docs) = 1

\* Every chunk row belongs to a stored document.
NoOrphans(st) == \A c \in st.chunks : \E d \in st.docs : d.id = c.document_id

\* The chunks of a document are its own: their texts are of the file (or of
\* the caller's version) its title is of, one chunk for an index.
OwnChunks(st) ==
    \A d \in st.docs :
        /\ \A c \in ChunksOf(st, d.id) : \A i \in 1..Len(c.text) :
              /\ c.text[i][2] = d.title[2]
              /\ (c.text[i][1] = "caller") = (d.title[1] = "caller")
        /\ \A c1, c2 \in ChunksOf(st, d.id) :
              c1.chunk_index = c2.chunk_index => c1 = c2

\* C7: whatever upsert_document, Indexer.index and remove_missing_files have
\* done, in the file and on the connection every chunk row refers to a
\* stored document, and to the one it was inserted for.
C7_NoOrphanChunks ==
    /\ NoOrphans(db) /\ NoOrphans(conn)
    /\ OwnChunks(db) /\ OwnChunks(conn)

\* C7: remove_missing_files deleted a document, another one and its chunks
\* are left.
C7_Witness ==
    /\ last.op = "remove_missing_files" /\ last.count > 0
    /\ db.docs /= {}
    /\ \A d \in db.docs : ChunksOf(db, d.id) /= {}

\* C8: remove_missing_files deletes the documents whose file does not exist
\* when it is called, and their chunks, returns their number, and leaves the
\* other documents and their chunks as they are; on an empty store it
\* returns 0 and changes nothing.
C8_RemoveMissingFiles ==
    [][remove_missing_files =>
         LET gone == {d \in db.docs : disk[d.path] = NoFile}
             kept == db.docs \ gone
         IN /\ db'.docs = kept
            /\ db'.chunks = {c \in db.chunks : \E d \in kept : d.id = c.document_id}
            /\ conn' = db'
            /\ last'.count = Cardinality(gone)
            /\ db.docs = {} => (last'.count = 0 /\ db' = db)]_vars

\* C8: of two stored documents the one whose file is gone was removed.
C8_Witness ==
    /\ last.op = "remove_missing_files" /\ last.count = 1
    /\ Cardinality(db.docs) = 1
    /\ \A d \in db.docs : disk[d.path] /= NoFile /\ ChunksOf(db, d.id) /= {}

OnePerPath(st) == \A r1, r2 \in st.docs : r1.path = r2.path => r1 = r2

\* C9: in the file and on the connection a path has at most one document
\* row, in every state, those after failed and rolled back calls included.
C9_OneRowPerPath == OnePerPath(db) /\ OnePerPath(conn)

\* C9: a stored path was replaced while the other path is stored too.
C9_Witness ==
    /\ last.status = "updated"
    /\ \A p \in Paths : Cardinality(RowsAt(db, p)) = 1

\* C10: every stored chunk has an embedding of `dimension` float32 values.
C10_EmbeddingHasStoreDimension ==
    \A c \in db.chunks : c.embedding.nbytes = Float32Bytes(dimension)

(***************************************************************************)
(* search                                                                  *)
(***************************************************************************)
\* search returned, and the store it read is conn, which it left alone.
Searched == last.op = "search" /\ last.status = "returned"

\* C11: on a store of N chunks search returns exactly top_k results when
\* top_k < N and exactly N when top_k >= N (none when N = 0), and never more
\* than top_k, for every top_k >= 0.
C11_SearchReturnsTopK ==
    Searched =>
        LET N == Cardinality(conn.chunks)
        IN /\ last.top_k < N => last.count = last.top_k
           /\ last.top_k >= N => last.count = N
           /\ last.count <= last.top_k

\* The result search builds from chunk c when the query is q.
ResultOf(st, c, q) ==
    LET d == CHOOSE r \in st.docs : r.id = c.document_id
    IN [path |-> d.path, title |-> d.title, chunk_index |-> c.chunk_index,
        text |-> c.text, metadata |-> c.metadata,
        score |-> Dot(c.embedding.float32, q)]

\* C12: the results of search(q, k) are those of min(k, N) different chunks,
\* each with the dot product of q and the chunk's embedding as its score,
\* with the path and title of the chunk's document and the chunk's text,
\* metadata and index; no chunk left out scores higher than one returned,
\* and the scores descend.
C12_SearchReturnsHighestScores ==
    Searched =>
        LET N == Cardinality(conn.chunks)
            k == IF last.top_k < N THEN last.top_k ELSE N
            res == last.results
        IN /\ Len(res) = k
           /\ \A i, j \in 1..Len(res) : i < j => res[i].score >= res[j].score
           /\ \E f \in [1..Len(res) -> conn.chunks] :
                 /\ \A i, j \in 1..Len(res) : i /= j => f[i] /= f[j]
                 /\ \A i \in 1..Len(res) :
                       res[i] = ResultOf(conn, f[i], last.query)
                 /\ \A c \in conn.chunks \ {f[i] : i \in 1..Len(res)} :
                       \A i \in 1..Len(res) :
                          Dot(c.embedding.float32, last.query) <= res[i].score

(***************************************************************************)
(* The chunker.                                                            *)
(***************************************************************************)
Streamed == "chunk_text_stream" \in gen.called
Listed == "chunk_text" \in gen.called
GenText == Concat(gen.text_stream)
GenStep == gen.max_chars - gen.overlap

\* C13: the i-th chunk chunk_text_stream yields (from 0) is
\* T[i*step : i*step + max_chars] of the concatenated text T, however T is
\* split into fragments; every chunk but the last has max_chars characters,
\* and the last `overlap` characters of a chunk are the first `overlap`
\* characters of the next.
C13_ChunkIsSliceOfText ==
    Streamed =>
        LET cs == gen.stream_chunks
            M == gen.max_chars
            O == gen.overlap
        IN /\ \A i \in 1..Len(cs) :
                 cs[i] = Slice(GenText, (i - 1) * GenStep, (i - 1) * GenStep + M)
           /\ \A i \in 1..(Len(cs) - 1) :
                 /\ Len(cs[i]) = M
                 /\ Len(cs[i + 1]) >= O
                 /\ SubSeq(cs[i], M - O + 1, M) = SubSeq(cs[i + 1], 1, O)

\* C13: three chunks or more with an overlap, the last one short, from a
\* stream that has an empty fragment and a fragment that ends inside a chunk.
C13_Witness ==
    /\ Streamed
    /\ Len(gen.stream_chunks) >= 3
    /\ gen.overlap > 0
    /\ Len(gen.stream_chunks[Len(gen.stream_chunks)]) < gen.max_chars
    /\ \E j \in 1..Len(gen.text_stream) : gen.text_stream[j] = <<>>
    /\ \E j \in 1..Len(gen.text_stream) :
          Len(gen.text_stream[j]) \notin {0, gen.max_chars}

\* The first chunk followed by every later chunk without its first
\* `ovl` characters (chunk[ovl:]).
Rebuilt(cs, ovl) ==
    IF cs = <<>> THEN <<>>
    ELSE cs[1] \o Concat([i \in 1..(Len(cs) - 1) |->
                             Slice(cs[i + 1], ovl, Len(cs[i + 1]))])

\* C14: the first chunk of chunk_text_stream followed by every later chunk
\* without its first `overlap` characters is the concatenated text, and no
\* chunk is yielded if and only if the text is empty.
C14_ChunksRebuildText ==
    Streamed =>
        /\ Rebuilt(gen.stream_chunks, gen.overlap) = GenText
        /\ (gen.stream_chunks = <<>>) <=> (GenText = <<>>)

\* C14: the text ends with a full chunk, and the residue, which is the
\* overlap alone, is yielded after it.
C14_Witness ==
    /\ Streamed
    /\ gen.overlap >= 2
    /\ Len(gen.stream_chunks) >= 2
    /\ Len(gen.stream_chunks[Len(gen.stream_chunks)]) = gen.overlap

CeilDiv(a, b) == (a + b - 1) \div b

\* C15 as claimed: the chunker yields ceil(max(L - O, 0) / (M - O)) chunks.
C15_CountIsCeiling ==
    Streamed =>
        Len(gen.stream_chunks) =
            CeilDiv(Maximum(Len(GenText) - gen.overlap, 0), GenStep)

\* Number of chunks of a text of L characters: none for no text, one for
\* less than M, else the full chunks at 0, step, 2*step, ... that fit in L
\* and one more for the characters from the start that follows them on.
StreamCount(L, M, O) ==
    IF L = 0 THEN 0
    ELSE IF L < M THEN 1
    ELSE LET full == (L - M) \div (M - O) + 1
         IN full + (IF L - full * (M - O) > 0 THEN 1 ELSE 0)

\* C15, amended: chunk_text_stream yields StreamCount(L, M, O) chunks, and
\* chunk_text yields ceil(L / (M - O)) chunks, one for each start below L.
C15_CountOfChunks ==
    /\ Streamed =>
          Len(gen.stream_chunks) =
              StreamCount(Len(GenText), gen.max_chars, gen.overlap)
    /\ Listed => Len(gen.text_chunks) = CeilDiv(Len(GenText), GenStep)

\* C15: a text longer than max_chars on which the two chunkers differ in
\* their number of chunks, and neither yields what the ceiling says.
C15_Witness ==
    /\ Streamed /\ Listed
    /\ Len(GenText) > gen.max_chars
    /\ Len(gen.stream_chunks) /= Len(gen.text_chunks)
    /\ Len(gen.stream_chunks) /=
          CeilDiv(Maximum(Len(GenText) - gen.overlap, 0), GenStep)

(***************************************************************************)
(* The end-to-end example.                                                 *)
(***************************************************************************)
\* The chunk rows stored for a path are `lengths` in number and the k-th of
\* them (in insertion order) has index k - 1 and lengths[k] characters.
StoredLengths(st, path, lengths) ==
    /\ Cardinality(ChunksAt(st, path)) = Len(lengths)
    /\ \A c \in ChunksAt(st, path) :
          /\ c.rowno \in 1..Len(lengths)
          /\ c.chunk_index = c.rowno - 1
          /\ Len(c.text) = lengths[c.rowno]

\* The example's document is committed with chunks of `lengths`, as inserted
\* when its path was not stored, and indexing it again is skipped.
ExampleRun(lengths) ==
    /\ (IndexCommits /\ job.bytes = ExampleFile) =>
          /\ StoredLengths(db', job.path, lengths)
          /\ RowsAt(db, job.path) = {} => last'.status = "inserted"
    /\ (/\ index_single_begin
        /\ disk[Head(queue)] = ExampleFile
        /\ \E r \in RowsAt(db, Head(queue)) :
              r.sha256 = compute_sha256(ExampleFile)) =>
          /\ last'.status = "skipped"
          /\ db' = db /\ conn' = conn
          /\ StoredLengths(db', Head(queue), lengths)

\* C16 as claimed: indexing a single-page document of 1000 characters with
\* max_chars = 300 and overlap = 50 stores 4 chunks of 300, 300, 300 and 150
\* characters with indices 0 to 3, its status is inserted, and indexing it
\* again with the same bytes is skipped.
C16_ExampleLengths150 == [][ExampleRun(<<300, 300, 300, 150>>)]_vars

\* C16, amended: the 4 chunks have 300, 300, 300 and 250 characters (the
\* last one starts at 3 * 250 and runs to the end of the text).
C16_ExampleLengths250 == [][ExampleRun(<<300, 300, 300, 250>>)]_vars

\* C16: the example's document was inserted by one run and skipped by the
\* next, and its four chunks are in the file.
C16_Witness ==
    /\ last.op = "index_single" /\ last.status = "skipped"
    /\ disk[last.path] = ExampleFile
    /\ Cardinality(ChunksAt(db, last.path)) = 4
    /\ \A r \in RowsAt(db, last.path) : r.sha256 = compute_sha256(ExampleFile)

(***************************************************************************)
(* The indexing pipeline.                                                  *)
(***************************************************************************)
\* The documents Indexer.index stored: their title is the title of a file.
IndexedDocs(st) == {d \in st.docs : d.title[1] = "title"}

\* The chunk rows of an indexed document are the first chunks build_chunks
\* yields for its file, in that order, with the indices 0, 1, 2, ...
InChunkerOrder(st, d) ==
    LET rows == ChunksOf(st, d.id)
        n == Cardinality(rows)
        emitted == build_chunks(d.title[2])
    IN /\ n <= Len(emitted)
       /\ {c.chunk_index : c \in rows} = 0..(n - 1)
       /\ {c.rowno : c \in rows} = 1..n
       /\ \A c \in rows :
             /\ c.chunk_index = c.rowno - 1
             /\ c.chunk_index = emitted[c.rowno].index
             /\ c.text = emitted[c.rowno].text

\* C17: the chunk_index values of a document stored by Indexer.index are
\* 0, 1, ..., n-1 without gap or duplicate, in the order of insertion, which
\* is the order in which the chunker emitted the chunks; in the file n is
\* the number of chunks of the document, on the connection, between two
\* batches, the number inserted so far.
C17_ChunkIndexContiguous ==
    /\ \A d \in IndexedDocs(db) :
          /\ InChunkerOrder(db, d)
          /\ Cardinality(ChunksOf(db, d.id)) = ChunkCountOf(d.title[2])
    /\ \A d \in IndexedDocs(conn) : InChunkerOrder(conn, d)

\* C17: a document of more than one batch is in the file, and another one
\* has its first batch on the connection.
C17_Witness ==
    /\ \E d \in IndexedDocs(db) : Cardinality(ChunksOf(db, d.id)) > batch_size
    /\ pc = "batch"
    /\ job.next = batch_size
    /\ Cardinality(ChunksOf(conn, job.doc_id)) = batch_size

Total(st) == st.inserted + st.updated + st.skipped + st.failed

InLoop == pc \in {"next", "batch"}

FailureStep == InLoop /\ stats'.failed = stats.failed + 1

\* C19: the step in which a document fails, before or inside its
\* transaction, leaves the file as it was and the connection with nothing
\* pending, counts the document as failed and goes on with the documents
\* after it; the loop is left only with no document to process.  So what
\* the other documents find, and what is stored for them, is what it would
\* be without the failing one.
C19_FailureDoesNotAbort ==
    [][/\ FailureStep =>
            /\ pc' = "next"
            /\ queue' = Tail(queue)
            /\ db' = db
            /\ conn' = db
            /\ last' = Result("index_single", Head(queue), "failed", job.next)
            /\ stats' = [stats EXCEPT !.failed = @ + 1,
                                      !.processed_files = Append(@, Head(queue))]
       /\ (InLoop /\ pc' = "idle") => queue = <<>>
       /\ (InLoop /\ queue' /= queue) => queue' = Tail(queue)]_vars

\* C19: the first document of a run failed and the one after it was
\* inserted with its chunks.
C19_Witness ==
    /\ pc = "next" /\ queue = <<>>
    /\ stats.failed = 1
    /\ Len(stats.processed_files) = 2
    /\ last.op = "index_single" /\ last.status = "inserted"
    /\ last.path = stats.processed_files[2]
    /\ ChunksAt(db, last.path) /= {}

\* The document at the head of the queue is a file that yields no chunk.
HeadYieldsNothing ==
    /\ pc = "next" /\ queue /= <<>>
    /\ disk[Head(queue)] /= NoFile
    /\ ChunkCountOf(disk[Head(queue)]) = 0

\* C20: what Indexer.index does with a file that yields no chunk is one
\* step: the document is skipped, the file and the connection are as they
\* were, and no batch, hence no call of the embedder, is started for it; a
\* document in its batches always has a chunk.
C20_NoChunksIsSkipped ==
    [][/\ (HeadYieldsNothing /\ disk' = disk) =>
            /\ last' = Result("index_single", Head(queue), "skipped", 0)
            /\ stats' = [stats EXCEPT !.skipped = @ + 1,
                                      !.processed_files = Append(@, Head(queue))]
            /\ pc' = "next"
            /\ queue' = Tail(queue)
            /\ db' = db
            /\ conn' = conn
       /\ pc' = "batch" => ChunkCountOf(job'.bytes) > 0]_vars

\* C20: a stored file lost its text and was skipped; its rows are there.
C20_Witness ==
    /\ last.op = "index_single" /\ last.status = "skipped"
    /\ disk[last.path] /= NoFile
    /\ ChunkCountOf(disk[last.path]) = 0
    /\ ChunksAt(db, last.path) /= {}

(***************************************************************************)
(* Failures of extraction.                                                 *)
(***************************************************************************)
\* _index_single is about to take a file that fitz cannot open.
HeadCannotBeOpened ==
    /\ pc = "next" /\ queue /= <<>>
    /\ fitz_open_raises(disk[Head(queue)])

\* C21: a document that cannot be opened or parsed at all is counted as
\* failed by Indexer.index, never as skipped, inserted or updated, and the
\* loop goes on with the next document.
C21_ExtractionFailureIsFailed ==
    [][(HeadCannotBeOpened /\ disk' = disk) =>
          /\ last' = Result("index_single", Head(queue), "failed", 0)
          /\ stats'.failed = stats.failed + 1
          /\ queue' = Tail(queue)
          /\ pc' = "next"]_vars

(***************************************************************************)
(* The search commands.                                                    *)
(***************************************************************************)
\* A search command was given a text that is empty after trimming.
EmptyQueryGiven ==
    /\ last.op \in {"search_documents", "cli_search"}
    /\ strip(last.text) = <<>>

\* C22: for a query text that is empty after trimming, the search path
\* calls neither the embedder nor the store.
C22_EmptyQueryIsRejected ==
    EmptyQueryGiven => (last.embed_calls = <<>> /\ last.store_calls = <<>>)

(***************************************************************************)
(* upsert_document stores what it is given.                                *)
(***************************************************************************)
\* The rows of `path` in st are the chunks of the call, one row per chunk in
\* the order given, each with the chunk's index, text and metadata and the
\* values of its embedding.
HoldsChunksOf(st, call) ==
    LET rows == ChunksAt(st, call.document.path)
    IN /\ Cardinality(rows) = Len(call.chunks)
       /\ \A i \in 1..Len(call.chunks) :
             \E c \in rows :
                /\ c.rowno = i
                /\ c.chunk_index = call.chunks[i].index
                /\ c.text = call.chunks[i].text
                /\ c.metadata = json_dumps(call.chunks[i].metadata)
                /\ c.embedding = tobytes(call.embeddings.data[i])

\* The documents of the other paths and their chunks are what they were.
OthersUntouched(before, after, path) ==
    /\ {r \in after.docs : r.path /= path} = {r \in before.docs : r.path /= path}
    /\ \A r \in before.docs :
          r.path /= path => ChunksOf(after, r.id) = ChunksOf(before, r.id)

C23_Upsert(call) ==
    (/\ upsert_document(call.document, call.chunks, call.embeddings)
     /\ last'.status \in {"inserted", "updated"}) =>
        /\ HoldsChunksOf(db', call)
        /\ conn' = db'
        /\ OthersUntouched(db, db', call.document.path)

\* C23: after upsert_document returns inserted or updated, the rows stored
\* for the document's path are exactly the chunks passed to the call, one
\* row per chunk with its index, text, metadata and embedding, and no other
\* document's row or chunks are changed.
C23_UpsertStoresItsChunks ==
    [][\A call \in CallsFor(PipelineCalls, last') : C23_Upsert(call)]_vars

\* C23: upsert_document replaced a document that had chunks by one with
\* chunks, while the other path holds a document with chunks.
C23_Witness ==
    /\ last.op = "upsert_document" /\ last.status = "updated"
    /\ \A p \in Paths : ChunksAt(db, p) /= {}

(***************************************************************************)
(* Opening a store again.                                                  *)
(***************************************************************************)
\* C24: opening a store on an initialized database file leaves every
\* document row and chunk row as it was, however often it is done, and the
\* new instance sees all of them: a search through it reads the rows a
\* search through the earlier instance read.
C24_OpenIsIdempotent ==
    [][open_store =>
          /\ db' = db
          /\ conn' = db
          /\ JoinRows(conn') = JoinRows(conn)]_vars

\* C24: a store that holds an indexed document with more than one batch of
\* chunks was opened again.
C24_Witness ==
    /\ last.op = "open_store"
    /\ \E p \in Paths : Cardinality(ChunksAt(db, p)) > batch_size

(***************************************************************************)
(* Documents and their chunks.                                             *)
(***************************************************************************)
\* C25: in every committed state, every document row written by
\* Indexer.index has at least one chunk row, and the indexer puts a row on
\* the connection only for a file that yields a chunk.
C25_IndexedDocumentHasChunks ==
    /\ \A d \in IndexedDocs(db) : ChunksOf(db, d.id) /= {}
    /\ \A d \in IndexedDocs(conn) : ChunkCountOf(d.title[2]) > 0

\* C25: a file without text was skipped and has no row, while the other
\* path holds an indexed document.
C25_Witness ==
    /\ last.op = "index_single" /\ last.status = "skipped"
    /\ disk[last.path] /= NoFile
    /\ ChunkCountOf(disk[last.path]) = 0
    /\ RowsAt(db, last.path) = {}
    /\ IndexedDocs(db) /= {}

(***************************************************************************)
(* The batches of one document.                                            *)
(***************************************************************************)
\* The texts of chunks a+1..b of the file, b cut at the last chunk.
TextsOfChunks(bytes, a, b) ==
    LET all == build_chunks(bytes)
        upto == IF b < Len(all) THEN b ELSE Len(all)
    IN [i \in 1..(upto - a) |-> all[a + i].text]

\* C26: while a document of n chunks is in its batches, the embedder has
\* been called once for each started group of 32 chunks consumed, call k
\* with the texts of chunks 32(k-1)+1 .. 32k (cut at n) in emission order,
\* never more than 32, and when call k was made the 32(k-1) chunks of the
\* calls before it were rows of the document; so when all n chunks are
\* consumed the embedder was called ceil(n / 32) times, every chunk was
\* embedded once, and the batches put end to end are the chunk sequence.
C26_BatchedEmbedding ==
    pc = "batch" =>
        /\ Len(job.calls) = CeilDiv(job.next, batch_size)
        /\ job.next < ChunkCountOf(job.bytes) =>
              job.next = Len(job.calls) * batch_size
        /\ \A k \in 1..Len(job.calls) :
              /\ Len(job.calls[k].texts) <= batch_size
              /\ job.calls[k].texts =
                    TextsOfChunks(job.bytes, (k - 1) * batch_size,
                                  k * batch_size)
              /\ job.calls[k].stored = (k - 1) * batch_size
        /\ Cardinality(ChunksOf(conn, job.doc_id)) = job.next

\* C26: a document of more than 32 chunks has had all its chunks embedded,
\* in more than one call, the last one with fewer than 32 texts.
C26_Witness ==
    /\ pc = "batch"
    /\ job.next = ChunkCountOf(job.bytes)
    /\ job.next > batch_size
    /\ Len(job.calls) = 2
    /\ Len(job.calls[2].texts) < batch_size

(***************************************************************************)
(* The buffer of chunk_text_stream.                                        *)
(***************************************************************************)
\* C27: each time chunk_text_stream asks for the next fragment, the last
\* time included, the text it retains is shorter than max_chars, and its
\* buffer is never longer than max_chars - 1 plus the fragment just
\* appended (the inner loop only shortens it).
C27_BufferIsBounded ==
    Streamed =>
        \A j \in 1..Len(gen.buffers) :
            LET b == gen.buffers[j]
            IN /\ b.before < gen.max_chars
               /\ b.after = b.before + b.part
               /\ b.after <= gen.max_chars - 1 + b.part
               /\ b.left <= b.after
               /\ b.left < gen.max_chars
               /\ j < Len(gen.buffers) => gen.buffers[j + 1].before = b.left

\* C27: a fragment longer than max_chars was appended to retained text, and
\* a later fragment was asked for.
C27_Witness ==
    /\ Streamed
    /\ \E j \in 1..Len(gen.buffers) :
          /\ gen.buffers[j].before > 0
          /\ gen.buffers[j].part > gen.max_chars
          /\ j < Len(gen.buffers)
          /\ gen.buffers[j + 1].part > 0

(***************************************************************************)
(* chunk_text_stream against chunk_text.                                   *)
(***************************************************************************)
\* C30: for every text, every split of it into fragments and every
\* max_chars > 0 and 0 <= overlap < max_chars, chunk_text_stream over the
\* fragments emits the same sequence of chunks (as many chunks, the same
\* text in each) as chunk_text over the concatenated text.
C30_StreamEqualsChunkText ==
    (Streamed /\ Listed) => gen.stream_chunks = gen.text_chunks

(***************************************************************************)
(* Two index jobs on one database file.                                    *)
(***************************************************************************)
\* Every committed state has at most one row per path, every row has the
\* whole chunk sequence of the file one job read, and every chunk belongs
\* to a row.
CommittedIsOneJobs ==
    /\ \A p \in Paths : Cardinality(RowsAt(db, p)) <= 1
    /\ IndexedWhole(db)
    /\ \A c \in db.chunks : \E d \in db.docs : d.id = c.document_id

\* Job i ends its document in this step.
JobEnds(i) == jobs[i].pc \in {"selected", "writing"} /\ jobs'[i].pc = "done"

\* Both jobs have classified the same path after having been between
\* SELECT and end of transaction at the same time.
BothRaced ==
    /\ \A i \in IndexJobs : jobs[i].pc = "done" /\ jobs[i].raced
    /\ jobs[1].path = jobs[2].path

\* C28 as stated: two index jobs, each with its own store on the same
\* database file, process the same path concurrently; every committed state
\* holds at most one row for the path with the complete chunk set of one
\* job, and of the two jobs one loses: it reports the document as failed.
C28_LoserReportsFailed ==
    /\ CommittedIsOneJobs
    /\ BothRaced => \E i \in IndexJobs : jobs[i].status = "failed"

\* C28: every committed state holds at most one row per path, with the
\* complete chunk set written by one job; a job whose first write finds the
\* file locked or the path inserted by the other reports failed; a job
\* that reports failed has changed nothing in the file; and a job that
\* reports inserted or updated has committed its row.
C28_ConcurrentJobsKeepStoreWhole ==
    [][/\ db' /= db => CommittedIsOneJobs'
       /\ \A i \in IndexJobs :
             JobEnds(i) =>
                /\ jobs[i].pc = "selected" => jobs'[i].status = "failed"
                /\ jobs'[i].status = "failed" => db' = db
                /\ jobs'[i].status /= "failed" =>
                      /\ jobs'[i].status = jobs[i].status
                      /\ db' = jobs[i].working
                      /\ \E d \in RowsAt(db', jobs[i].path) :
                            /\ d.id = jobs[i].doc_id
                            /\ d.sha256 = compute_sha256(jobs[i].bytes)]_vars

\* C28: the two jobs raced on a path whose file has more chunks than a
\* batch, one committed it and the other reports failed.
C28_Witness ==
    /\ BothRaced
    /\ \E i \in IndexJobs :
          /\ jobs[i].status \in {"inserted", "updated"}
          /\ jobs[OtherJob(i)].status = "failed"
    /\ \E d \in RowsAt(db, jobs[1].path) :
          Cardinality(ChunksOf(db, d.id)) > batch_size

(***************************************************************************)
(* The hash comparison comes before the embedder.                          *)
(***************************************************************************)
\* The document whose turn it is yields chunks and has the hash stored for
\* its path.
HeadIsUnchanged ==
    /\ pc = "next" /\ queue /= <<>>
    /\ disk[Head(queue)] /= NoFile
    /\ ChunkCountOf(disk[Head(queue)]) > 0
    /\ \E r \in RowsAt(conn, Head(queue)) :
          r.sha256 = compute_sha256(disk[Head(queue)])

\* C29: Indexer.index never calls the embedder for a document whose hash is
\* the one stored for its path: its step ends the document as skipped (or
\* failed, when the file cannot be hashed) with no batch and no write, and
\* whenever a document is in its batches, where the embedder is called, the
\* hash stored for its path before the transaction is another one.
C29_UnchangedIsNotEmbedded ==
    [][/\ (HeadIsUnchanged /\ disk' = disk) =>
             /\ pc' = "next"
             /\ queue' = Tail(queue)
             /\ job' = NoJob
             /\ last'.op = "index_single"
             /\ last'.path = Head(queue)
             /\ last'.status \in {"skipped", "failed"}
             /\ db' = db /\ conn' = conn
       /\ pc' = "batch" =>
             \A r \in RowsAt(db', job'.path) :
                 r.sha256 /= compute_sha256(job'.bytes)]_vars

\* C29: a file of more chunks than a batch, indexed before, was skipped.
C29_Witness ==
    /\ last.op = "index_single"
    /\ last.status = "skipped"
    /\ disk[last.path] /= NoFile
    /\ ChunkCountOf(disk[last.path]) > batch_size
    /\ \E r \in RowsAt(db, last.path) :
          /\ r.sha256 = compute_sha256(disk[last.path])
          /\ Cardinality(ChunksOf(db, r.id)) = ChunkCountOf(disk[last.path])
====
